---- MODULE Spec2Model ----
(***************************************************************************)
(* Conversational intent-resolution pipeline of the AI side panel:         *)
(* classifier, extractor, planner (response generator), the chat and       *)
(* clarify route handlers with their execution gate and action executor,   *)
(* and the processUserIntent path with its own completion-backed           *)
(* classifier.                                                             *)
(*                                                                         *)
(* Conventions.  Confidences are fixed-point, 1/10000 units (0.8 = 8000,   *)
(* 0.8001 = 8001).  An optional JSON key is a sequence of length 0         *)
(* (key absent / undefined) or 1 (key present with that value).  A         *)
(* completion is a record whose kind tells what the completion call did:   *)
(*   "fail"  the call rejected (service unavailable, rate limit, ...),     *)
(*   "empty" the call resolved with null or "" content,                    *)
(*   "text"  non-empty content with no {...} span that JSON.parse accepts, *)
(*   "json"  non-empty content whose {...} span parses to an object with   *)
(*           the keys carried by the record.                               *)
(* Keys, when present, carry values of their declared type.                *)
(***************************************************************************)
EXTENDS Integers, Sequences, FiniteSets, TLC

None == <<>>
Some(v) == <<v>>
Opt(S) == {None} \cup {Some(v) : v \in S}

\* Sequences over S of length at most n.
SeqUpTo(S, n) == UNION {[1..k -> S] : k \in 0..n}

\* Elements of a sequence, as a set.
Range(s) == {s[i] : i \in 1..Len(s)}

(***************************************************************************)
(* Bounds of the model.                                                    *)
(***************************************************************************)
MaxActions == 2
MaxEntities == 2

(***************************************************************************)
(* Intent classifier (lib/ai/intent-classifier).                           *)
(***************************************************************************)
Intent ==
  {"CREATE_PAYEE", "READ_PAYEE", "UPDATE_PAYEE", "DELETE_PAYEE",
   "CREATE_CATEGORY", "READ_CATEGORY", "UPDATE_CATEGORY", "DELETE_CATEGORY",
   "CLARIFY", "HELP", "UNKNOWN"}

\* Confidence values a completion may report: 0, 0.3 and 0.99 from the
\* classifier; 0, the gate's boundary 0.8, 0.8001 and 0.99 from the planner.
ClassifierConfidences == {0, 3000, 9900}
ConfidenceValues == {0, 8000, 8001, 9900}

QuestionLists == {<<>>, <<"What would you like to add - a payee or a category?">>}

\* What the classifier's completion call can produce.  The intent key may
\* also hold the empty string, which is falsy like an absent key.
ClassifierCompletion ==
  [kind : {"fail", "empty", "text"}, intent : {None}, confidence : {None},
   requiresClarification : {None}, clarificationQuestions : {None}]
  \cup
  [kind : {"json"}, intent : Opt(Intent \cup {""}),
   confidence : Opt(ClassifierConfidences),
   requiresClarification : Opt(BOOLEAN),
   clarificationQuestions : Opt(QuestionLists)]

\* JavaScript's  x || d  for an optional string, number, boolean and array.
OrString(o, d) == IF o = None \/ o[1] = "" THEN d ELSE o[1]
OrNumber(o, d) == IF o = None \/ o[1] = 0 THEN d ELSE o[1]
OrBoolean(o, d) == IF o = None \/ o[1] = FALSE THEN d ELSE o[1]
OrArray(o, d) == IF o = None THEN d ELSE o[1]

ClassificationFallback ==
  [intent |-> "UNKNOWN", confidence |-> 0, requiresClarification |-> TRUE,
   clarificationQuestions |->
     <<"I need more information to understand your request.">>]

\* Mutant: the fallback of the catch branch does not ask for clarification.
parseClassificationResponseNoClarify(content) ==
  IF content.kind = "text"
  THEN [ClassificationFallback EXCEPT !.requiresClarification = FALSE]
  ELSE [intent |-> OrString(content.intent, "UNKNOWN"),
        confidence |-> OrNumber(content.confidence, 0),
        requiresClarification |->
          OrBoolean(content.requiresClarification, FALSE),
        clarificationQuestions |->
          OrArray(content.clarificationQuestions, <<>>)]

\* content is non-empty here: classifyIntent rejects empty content first.
parseClassificationResponse(content) ==
  IF content.kind = "text"
  THEN ClassificationFallback
  ELSE [intent |-> OrString(content.intent, "UNKNOWN"),
        confidence |-> OrNumber(content.confidence, 0),
        requiresClarification |->
          OrBoolean(content.requiresClarification, FALSE),
        clarificationQuestions |->
          OrArray(content.clarificationQuestions, <<>>)]

NoClassification ==
  [intent |-> "", confidence |-> 0, requiresClarification |-> FALSE,
   clarificationQuestions |-> <<>>]

\* Result of an async call that may throw: threw tells whether it raised,
\* aiError whether the error is an AIServiceError, code its code.
Returned(v) ==
  [threw |-> FALSE, aiError |-> FALSE, message |-> "", code |-> "", value |-> v]
ThrewAI(msg, c, v) ==
  [threw |-> TRUE, aiError |-> TRUE, message |-> msg, code |-> c, value |-> v]

\* Mutant: a failed completion call is swallowed into the fallback
\* classification instead of being raised.
classifyIntentSwallow(completion) ==
  CASE completion.kind = "fail" -> Returned(ClassificationFallback)
    [] completion.kind = "empty" ->
         ThrewAI("Empty response from AI", "EMPTY_RESPONSE", NoClassification)
    [] OTHER -> Returned(parseClassificationResponse(completion))

classifyIntent(completion) ==
  CASE completion.kind = "fail" ->
         ThrewAI("Failed to classify intent", "CLASSIFICATION_ERROR",
                 NoClassification)
    [] completion.kind = "empty" ->
         ThrewAI("Empty response from AI", "EMPTY_RESPONSE", NoClassification)
    [] OTHER -> Returned(parseClassificationResponse(completion))

(***************************************************************************)
(* Entity extractor (lib/ai/entity-extractor).                             *)
(***************************************************************************)
ExtractedEntityType ==
  {"name", "email", "phone", "address", "category", "id", "description"}

\* Entity types and values that completions report in this model; the empty
\* string is a value a completion may report for a present entity.
CompletionEntityTypes == {"name", "id", "email"}
EntityValues == {"", "ABC Corp"}

ExtractedEntity == [type : CompletionEntityTypes, value : EntityValues]

\* An ambiguousEntities value of a completion that is not an array (a
\* non-empty string, an object): it is truthy, so parsed.ambiguousEntities
\* || [] keeps it, and it has no join method. It is written as a list of one
\* marker, which no list of references equals.
NonArray == <<"[object Object]">>

\* entitiesTag: "absent" (no entities key, or null), "array" (an array of
\* entity objects, held by entities), "other" (any value on which .map or
\* e.type raises a TypeError: a string, an object, an array holding null).
ExtractorCompletion ==
  [kind : {"fail", "empty", "text"}, entitiesTag : {"absent"},
   entities : {<<>>}, confidence : {None}, ambiguousEntities : {None},
   missingRequiredFields : {None}]
  \cup
  [kind : {"json"}, entitiesTag : {"absent", "other"},
   entities : {<<>>}, confidence : Opt({0, 9000}),
   ambiguousEntities : Opt({<<>>, <<"John">>, NonArray}),
   missingRequiredFields : Opt({<<>>, <<"name">>})]
  \cup
  [kind : {"json"}, entitiesTag : {"array"},
   entities : SeqUpTo(ExtractedEntity, MaxEntities),
   confidence : Opt({0, 9000}),
   ambiguousEntities : Opt({<<>>, <<"John">>, NonArray}),
   missingRequiredFields : Opt({<<>>, <<"name">>})]

\* Mutant: update and delete require only the id.
getRequiredFieldsForIntentIdOnly(intent) ==
  CASE intent \in {"CREATE_PAYEE", "CREATE_CATEGORY"} -> <<"name">>
    [] intent \in {"UPDATE_PAYEE", "DELETE_PAYEE",
                   "UPDATE_CATEGORY", "DELETE_CATEGORY"} -> <<"id">>
    [] OTHER -> <<>>

\* requirements[intent] || []
getRequiredFieldsForIntent(intent) ==
  CASE intent \in {"CREATE_PAYEE", "CREATE_CATEGORY"} -> <<"name">>
    [] intent \in {"UPDATE_PAYEE", "DELETE_PAYEE",
                   "UPDATE_CATEGORY", "DELETE_CATEGORY"} -> <<"name", "id">>
    [] OTHER -> <<>>

ExtractionFallback(intent) ==
  [entities |-> <<>>, confidence |-> 0, ambiguousEntities |-> <<>>,
   missingRequiredFields |-> getRequiredFieldsForIntent(intent)]

\* Types present among the entities, in order (parsed.entities?.map(e => e.type) || []).
ExtractedTypes(content) ==
  [i \in 1..Len(content.entities) |-> content.entities[i].type]

\* Mutant: an entity counts as present only when its value is non-empty.
MissingFieldsNonEmpty(content, intent) ==
  SelectSeq(getRequiredFieldsForIntent(intent),
            LAMBDA field :
              ~ \E i \in 1..Len(content.entities) :
                  /\ content.entities[i].type = field
                  /\ content.entities[i].value # "")

\* requiredFields.filter(field => !extractedTypes.includes(field))
MissingFields(content, intent) ==
  SelectSeq(getRequiredFieldsForIntent(intent),
            LAMBDA field : field \notin Range(ExtractedTypes(content)))

\* content is non-empty here: extractEntities rejects empty content first.
parseExtractionResponse(content, intent) ==
  IF content.kind = "text" \/ content.entitiesTag = "other"
  THEN ExtractionFallback(intent)
  ELSE [entities |-> content.entities,
        confidence |-> OrNumber(content.confidence, 0),
        ambiguousEntities |-> OrArray(content.ambiguousEntities, <<>>),
        missingRequiredFields |-> MissingFields(content, intent)]

NoExtraction ==
  [entities |-> <<>>, confidence |-> 0, ambiguousEntities |-> <<>>,
   missingRequiredFields |-> <<>>]

extractEntities(completion, intent) ==
  CASE completion.kind = "fail" ->
         ThrewAI("Failed to extract entities", "EXTRACTION_ERROR", NoExtraction)
    [] completion.kind = "empty" ->
         ThrewAI("Empty response from AI", "EMPTY_RESPONSE", NoExtraction)
    [] OTHER -> Returned(parseExtractionResponse(completion, intent))

(***************************************************************************)
(* Response generator, the planner (lib/ai/response-generator).            *)
(***************************************************************************)
ActionTypes == {"create", "read", "update", "delete"}
ActionEntities == {"payee", "category"}

\* Actions a planner completion proposes in this model; the ids are the
\* completion's own, hasData says whether the action has a data object.
SuggestedAction ==
  {[id |-> "a1", type |-> "create", entity |-> "payee", hasData |-> TRUE],
   [id |-> "a2", type |-> "delete", entity |-> "payee", hasData |-> TRUE],
   [id |-> "a3", type |-> "update", entity |-> "category", hasData |-> TRUE],
   [id |-> "a4", type |-> "read", entity |-> "category", hasData |-> TRUE]}

\* A null element of the actions array of a planner completion: the parsed
\* array is passed on unvalidated (parsed.actions || []). null has no id,
\* type, entity or data; reading any of them throws a TypeError.
NullAction == [id |-> "null", type |-> "null", entity |-> "null", hasData |-> FALSE]

PlannerCompletion ==
  [kind : {"fail", "empty", "text"}, message : {None}, actions : {None},
   requiresConfirmation : {None}, confidence : {None}]
  \cup
  [kind : {"json"}, message : Opt({"I will do that."}),
   actions : Opt(SeqUpTo(SuggestedAction, MaxActions)),
   requiresConfirmation : Opt(BOOLEAN),
   confidence : Opt(ConfidenceValues)]

FallbackConfidence == 1000
DefaultConfidence == 5000

ResponseFallback ==
  [message |-> "I understand your request, but I need to process it further.",
   actions |-> <<>>, requiresConfirmation |-> TRUE,
   confidence |-> FallbackConfidence]

\* Mutant: the fallback neither forces confirmation nor lowers confidence.
parseResponseGenerationOpenFallback(content) ==
  IF content.kind = "text"
  THEN [ResponseFallback EXCEPT !.requiresConfirmation = FALSE,
                                !.confidence = 9000,
                                !.actions = <<[id |-> "a1", type |-> "create",
                                               entity |-> "payee",
                                               hasData |-> TRUE]>>]
  ELSE [message |-> OrString(content.message, "I understand your request."),
        actions |-> OrArray(content.actions, <<>>),
        requiresConfirmation |-> OrBoolean(content.requiresConfirmation, FALSE),
        confidence |-> OrNumber(content.confidence, DefaultConfidence)]

\* content is non-empty here: generateResponse rejects empty content first.
parseResponseGeneration(content) ==
  IF content.kind = "text"
  THEN ResponseFallback
  ELSE [message |-> OrString(content.message, "I understand your request."),
        actions |-> OrArray(content.actions, <<>>),
        requiresConfirmation |-> OrBoolean(content.requiresConfirmation, FALSE),
        confidence |-> OrNumber(content.confidence, DefaultConfidence)]

NoResponse ==
  [message |-> "", actions |-> <<>>, requiresConfirmation |-> FALSE,
   confidence |-> 0]

generateResponse(completion) ==
  CASE completion.kind = "fail" ->
         ThrewAI("Failed to generate response", "GENERATION_ERROR", NoResponse)
    [] completion.kind = "empty" ->
         ThrewAI("Empty response from AI", "EMPTY_RESPONSE", NoResponse)
    [] OTHER -> Returned(parseResponseGeneration(completion))

\* The completion that words a clarification question; its failure and its
\* empty content are both absorbed.
ClarifierCompletion == [kind : {"fail", "empty", "text"}]

generateClarificationResponse(completion) ==
  CASE completion.kind = "fail" ->
         "I need more information to help you with that. Could you please provide more details?"
    [] completion.kind = "empty" ->
         "I need more information to help you with that."
    [] OTHER -> "Which payee do you mean?"

(***************************************************************************)
(* Requests and replies of the route handlers.                             *)
(***************************************************************************)
\* The message field of a request body, by JavaScript type.
Messages ==
  {[jstype |-> "undefined", text |-> ""],
   [jstype |-> "number", text |-> "42"],
   [jstype |-> "string", text |-> ""],
   [jstype |-> "string", text |-> "Add vendor ABC Corp"]}

\* Mutant: only a missing message is rejected.
InvalidMessageMissingOnly(m) == m.jstype = "undefined"

\* !message || typeof message !== 'string'
InvalidMessage(m) ==
  \/ m.jstype = "undefined"
  \/ (m.jstype = "string" /\ m.text = "")
  \/ m.jstype # "string"

\* Bodies of POST /api/ai/chat; malformed: request.json() rejects.
ChatBodies ==
  [malformed : {TRUE}, message : {[jstype |-> "undefined", text |-> ""]}]
  \cup [malformed : {FALSE}, message : Messages]

\* Bodies of POST /api/ai/clarify.
ClarifyBodies ==
  [malformed : {TRUE}, originalMessage : {[jstype |-> "undefined", text |-> ""]},
   actionId : {None}, confirmAction : {FALSE}]
  \cup [malformed : {FALSE}, originalMessage : Messages,
        actionId : Opt({"a2"}), confirmAction : BOOLEAN]

\* The body that confirmAction(actionId) of the conversation store posts to
\* the clarify route.
ConfirmActionBody ==
  [malformed |-> FALSE, originalMessage |-> [jstype |-> "string", text |-> ""],
   actionId |-> Some("a2"), confirmAction |-> TRUE]

\* A reply body; the keys a handler does not send keep the values below.
\* message is the message of the chat and clarify routes and the response
\* of the processUserIntent route.
NoReply ==
  [status |-> 0, type |-> "none", message |-> "", error |-> None,
   code |-> None, needsClarification |-> FALSE, suggestedActions |-> <<>>,
   executedActions |-> <<>>, requiresConfirmation |-> FALSE, confidence |-> 0,
   success |-> FALSE, clarificationContext |-> None, details |-> None]

BadRequest(msg) == [NoReply EXCEPT !.status = 400, !.type = "error", !.error = Some(msg)]

\* The details of an AIServiceError: the error it wraps; the
\* EMPTY_RESPONSE error is constructed without details.
AIServiceErrorDetails(code) ==
  IF code = "EMPTY_RESPONSE" THEN None ELSE Some("underlying error")

\* The catch block of the chat, clarify and intent handlers. The intent
\* handler adds debug.originalError (details) for an AIServiceError; its GET
\* method answers with the message of whatever was thrown.
ErrorReply(h, r) ==
  IF h = "intentGet"
  THEN [NoReply EXCEPT !.status = 500, !.type = "error",
                       !.error = Some(r.message)]
  ELSE IF r.aiError
  THEN [NoReply EXCEPT !.status = 500, !.type = "error",
                       !.error = Some(r.message), !.code = Some(r.code),
                       !.details = IF h = "intent"
                                   THEN AIServiceErrorDetails(r.code)
                                   ELSE None]
  ELSE [NoReply EXCEPT !.status = 500, !.type = "error",
                       !.error = Some(CASE h = "chat" ->
                                             "Internal server error processing AI request"
                                        [] h = "intent" ->
                                             "Internal server error during intent classification"
                                        [] OTHER ->
                                             "Internal server error processing clarification")]

\* An error that is not an AIServiceError (request.json(), createClient or
\* a store lookup rejecting).
ThrewOther == [threw |-> TRUE, aiError |-> FALSE, message |-> "", code |-> "", value |-> 0]

ConfidenceGate == 8000

\* Mutant: >= instead of >.
ShouldAutoExecuteAtLeast(resp) ==
  resp.confidence >= ConfidenceGate /\ ~ resp.requiresConfirmation

\* response.confidence > 0.8 && !response.requiresConfirmation
ShouldAutoExecute(resp) ==
  resp.confidence > ConfidenceGate /\ ~ resp.requiresConfirmation

\* The clarification condition of the chat handler and of the clarify handler.
NeedsClarification(h, cl, ex) ==
  IF h = "chat"
  THEN cl.requiresClarification \/ Len(ex.missingRequiredFields) > 0
  ELSE Len(ex.missingRequiredFields) > 0

(***************************************************************************)
(* Action executor (executeActions of the chat and clarify routes).        *)
(***************************************************************************)
\* What one store request can do: succeed, return an error, or reject.
StoreOutcomes == {"ok", "error", "throw"}

TableOf(entity) == IF entity = "payee" THEN "payees" ELSE "categories"

StoreOpOf(type) ==
  CASE type = "create" -> "insert"
    [] type = "update" -> "update"
    [] type = "delete" -> "delete"
    [] OTHER -> "select"

\* Whether the switch reaches a store request for this action.
Dispatches(action) ==
  action.type \in ActionTypes /\ action.entity \in ActionEntities

\* action.data.id and action.data.query throw a TypeError when the action
\* has no data object; the query builder has sent nothing by then.
ThrowsBeforeRequest(action) ==
  /\ Dispatches(action)
  /\ action.type \in {"update", "delete", "read"}
  /\ ~ action.hasData

\* Whether a request for this action is sent to the store.
SendsRequest(action) == Dispatches(action) /\ ~ ThrowsBeforeRequest(action)

\* The request sent for an action, with what the store did with it.
StoreRequestOf(action, outcome) ==
  [op |-> StoreOpOf(action.type), table |-> TableOf(action.entity),
   outcome |-> outcome]

\* The entry pushed for one action; defined = FALSE is result: undefined
\* (a known type with an entity that is neither payee nor category).
ActionResult(action, outcome) ==
  [actionId |-> action.id, type |-> action.type, entity |-> action.entity,
   defined |-> (action.type \notin ActionTypes \/ action.entity \in ActionEntities),
   success |-> (SendsRequest(action) /\ outcome = "ok"),
   error |-> CASE action.type \notin ActionTypes -> "Unknown action type"
               [] ThrowsBeforeRequest(action) ->
                    "Cannot read properties of undefined"
               [] SendsRequest(action) /\ outcome = "error" -> "store error"
               [] SendsRequest(action) /\ outcome = "throw" -> "request failed"
               [] OTHER -> ""]

(***************************************************************************)
(* State.                                                                  *)
(***************************************************************************)
VARIABLES
  handler,          \* route handling the current request
  pc,               \* position of the handler
  completion,       \* the last completion consumed: [call, content]
  classification,   \* Opt: result of classifyIntent
  extraction,       \* Opt: result of extractEntities
  response,         \* Opt: result of generateResponse
  plannerCalled,    \* generateResponse was called in this turn
  executorCalled,   \* executeActions was called in this turn
  executedActions,  \* results pushed by executeActions so far
  storeCalls,       \* store requests issued in this turn, in order
  caught,           \* Opt: the error the handler's catch block received
  intent,           \* Opt: the ProcessedIntent of processUserIntent
  request,          \* Opt: the body of the request being handled
  reply,            \* the HTTP reply of the turn
  contextData,      \* Opt: the context object built from the two lookups
  prompt,           \* Opt: the user prompt of the classification call
  aiCalls,          \* the components called in this turn, in call order
  \* The state of useAIStore (the conversation store of the side panel).
  conversations,          \* newest first: [id, messages]
  currentConversationId,  \* Opt
  isProcessing,
  error,                  \* Opt: the error text shown by the panel
  pendingClarification,   \* Opt: the reply held while a clarification is open
  fetches,                \* the store's requests in flight
  isSubmitting,           \* local state of ClarificationDialog
  nextId,                 \* generateId: the next fresh id
  clarificationOwner,     \* history: conversation of the turn whose reply is
                          \* held in pendingClarification
  \* The categories table behind the category routes.
  categoryRows            \* the row with id i at position i: [parent_id]

storeVars == <<conversations, currentConversationId, isProcessing, error,
               pendingClarification, fetches, isSubmitting, nextId,
               clarificationOwner>>

routeVars == <<handler, pc, completion, classification, extraction, response,
               plannerCalled, executorCalled, executedActions, storeCalls,
               caught, intent, request, reply, contextData, prompt, aiCalls>>

tableVars == <<categoryRows>>

vars == <<routeVars, storeVars, tableVars>>

NoCompletion == [call |-> "none", content |-> [kind |-> "none"]]

\* State at the start of a turn, before the request is read.
Fresh ==
  /\ completion = NoCompletion
  /\ classification = None
  /\ extraction = None
  /\ response = None
  /\ plannerCalled = FALSE
  /\ executorCalled = FALSE
  /\ executedActions = <<>>
  /\ storeCalls = <<>>
  /\ caught = None
  /\ intent = None
  /\ request = None
  /\ reply = NoReply
  /\ contextData = None
  /\ prompt = None
  /\ aiCalls = <<>>

\* Initial state of useAIStore; no dialog is submitting and no request is
\* in flight.
StoreInit ==
  /\ conversations = <<>>
  /\ currentConversationId = None
  /\ isProcessing = FALSE
  /\ error = None
  /\ pendingClarification = None
  /\ fetches = <<>>
  /\ isSubmitting = FALSE
  /\ nextId = 1
  /\ clarificationOwner = None

Init ==
  /\ handler = "none"
  /\ pc = "idle"
  /\ Fresh
  /\ StoreInit
  /\ categoryRows = <<>>

\* Every variable of a turn reset, as primed values.
FreshNext ==
  /\ completion' = NoCompletion
  /\ classification' = None
  /\ extraction' = None
  /\ response' = None
  /\ plannerCalled' = FALSE
  /\ executorCalled' = FALSE
  /\ executedActions' = <<>>
  /\ storeCalls' = <<>>
  /\ intent' = None
  /\ contextData' = None
  /\ prompt' = None
  /\ aiCalls' = <<>>
  /\ UNCHANGED <<storeVars, tableVars, tableVars>>

\* The handler ends the turn with reply r.
Finish(r) ==
  /\ pc' = "done"
  /\ reply' = r
  /\ caught' = None

\* The catch block of handler h receives error r and ends the turn.
Catch(h, r) ==
  /\ pc' = "done"
  /\ caught' = Some([aiError |-> r.aiError, message |-> r.message, code |-> r.code])
  /\ reply' = ErrorReply(h, r)

\* The handler goes on to position p.
Goto(p) ==
  /\ pc' = p
  /\ reply' = NoReply
  /\ caught' = None

(***************************************************************************)
(* Completions drawn by the route handlers: the cases of each component,   *)
(* over fewer intents, entities and texts than the component is checked    *)
(* against on its own.                                                     *)
(***************************************************************************)
HandlerClassifierCompletion ==
  {c \in ClassifierCompletion :
     c.kind = "json" =>
       /\ c.intent \in {Some("CREATE_PAYEE"), Some("DELETE_PAYEE"), Some("CLARIFY")}
       /\ c.confidence = Some(9900)
       /\ c.clarificationQuestions = None}

HandlerExtractorCompletion ==
  {c \in ExtractorCompletion :
     c.kind = "json" =>
       /\ c.entitiesTag = "array"
       /\ c.entities \in
            {<<>>,
             <<[type |-> "name", value |-> "ABC Corp"]>>,
             <<[type |-> "id", value |-> "ABC Corp"]>>,
             <<[type |-> "name", value |-> "ABC Corp"],
               [type |-> "id", value |-> "ABC Corp"]>>}
       /\ c.confidence = Some(9000)
       /\ c.ambiguousEntities \in {None, Some(NonArray)}
       /\ c.ambiguousEntities = Some(NonArray) => c.entities = <<>>
       /\ c.missingRequiredFields = None}

HandlerPlannerCompletion ==
  {c \in PlannerCompletion : c.kind = "json" => c.message = None}

(***************************************************************************)
(* POST /api/ai/chat and POST /api/ai/clarify.                             *)
(***************************************************************************)
\* The chat handler reads the request, validates the message and creates
\* the store client.
ChatRequest ==
  /\ pc \in {"idle", "done"}
  /\ handler' = "chat"
  /\ FreshNext
  /\ \E body \in ChatBodies, clientOk \in BOOLEAN :
       /\ request' = Some(body)
       /\ IF body.malformed
          THEN Catch("chat", ThrewOther)
          ELSE IF InvalidMessage(body.message)
          THEN Finish(BadRequest("Message is required and must be a string"))
          ELSE IF ~ clientOk
          THEN Catch("chat", ThrewOther)
          ELSE Goto("lookup")

\* The clarify handler reads the request, validates originalMessage,
\* creates the store client and answers an action confirmation at once.
ClarifyRequest ==
  /\ pc \in {"idle", "done"}
  /\ handler' = "clarify"
  /\ FreshNext
  /\ \E body \in ClarifyBodies, clientOk \in BOOLEAN :
       /\ request' = Some(body)
       /\ IF body.malformed
          THEN Catch("clarify", ThrewOther)
          ELSE IF InvalidMessage(body.originalMessage)
          THEN Finish(BadRequest("Original message is required"))
          ELSE IF ~ clientOk
          THEN Catch("clarify", ThrewOther)
          ELSE IF body.confirmAction /\ body.actionId # None
          THEN Finish([NoReply EXCEPT !.status = 200, !.type = "confirmation",
                         !.message = "Action confirmed and will be executed."])
          ELSE Goto("lookup")

\* No context object: classifyIntent(message) without a second argument.
NoContext ==
  [recentPayees |-> None, categories |-> None,
   existingPayees |-> None, existingCategories |-> None]

\* The context objects a handler builds from the rows of the two lookups
\* (names of payees, names of categories). The clarify handler builds one
\* object for the classifier and one for the extractor; the keys of both
\* are kept in one record.
ContextDataOf(h, payees, categories) ==
  CASE h = "chat" ->
         [NoContext EXCEPT !.existingPayees = Some(payees),
                           !.existingCategories = Some(categories)]
    [] h = "intent" ->
         [NoContext EXCEPT !.recentPayees = Some(payees),
                           !.categories = Some(categories)]
    [] OTHER ->
         [recentPayees |-> Some(payees), categories |-> Some(categories),
          existingPayees |-> Some(payees), existingCategories |-> Some(categories)]

\* buildClassificationPrompt: the message, the names under recentPayees and
\* the names under categories; <<>> where the prompt has no such section.
buildClassificationPrompt(message, context) ==
  [message |-> message,
   recentPayees |-> OrArray(context.recentPayees, <<>>),
   categories |-> OrArray(context.categories, <<>>)]

\* The two context lookups (Promise.all of two selects) returning these
\* names, or rejecting.
LookupWith(ok, payees, categories) ==
  /\ IF ok THEN Goto("classify") ELSE Catch(handler, ThrewOther)
  /\ contextData' = IF ok
                    THEN Some(ContextDataOf(handler, payees, categories))
                    ELSE None
  /\ storeCalls' = storeCalls \o
       <<[op |-> "select", table |-> "payees",
          outcome |-> IF ok THEN "ok" ELSE "throw"],
         [op |-> "select", table |-> "categories",
          outcome |-> IF ok THEN "ok" ELSE "throw"]>>
  /\ UNCHANGED <<storeVars, tableVars, prompt, aiCalls, request, intent, handler,
                 completion, classification, extraction, response,
                 plannerCalled, executorCalled, executedActions>>

\* The lookups against a store that holds one payee and one category.
Lookup ==
  /\ pc = "lookup"
  /\ \E ok \in BOOLEAN : LookupWith(ok, <<"ABC Corp">>, <<"Rent">>)

\* Step 1: classifyIntent consumes completion c. The intent handler
\* answers with the classification.
ClassifyWith(c) ==
  LET r == classifyIntent(c) IN
  /\ completion' = [call |-> "classifier", content |-> c]
  /\ prompt' = Some(buildClassificationPrompt(
                      IF handler = "clarify"
                      THEN request[1].originalMessage.text
                      ELSE request[1].message.text,
                      OrArray(contextData, NoContext)))
  /\ aiCalls' = Append(aiCalls, "classifier")
  /\ IF r.threw
     THEN Catch(handler, r) /\ classification' = None
     ELSE /\ classification' = Some(r.value)
          /\ IF handler \in {"intent", "intentGet"}
             THEN Finish([NoReply EXCEPT !.status = 200,
                                         !.type = "classification",
                                         !.success = TRUE])
             ELSE Goto("extract")
  /\ UNCHANGED <<storeVars, tableVars, contextData, request, intent, handler, extraction,
                 response, plannerCalled, executorCalled, executedActions,
                 storeCalls>>

Classify ==
  /\ pc = "classify"
  /\ \E c \in HandlerClassifierCompletion : ClassifyWith(c)

\* Mutant: the extractor is called with a fixed intent.
ExtractWithFixedIntent(c) ==
  LET r == extractEntities(c, "UNKNOWN") IN
  /\ completion' = [call |-> "extractor", content |-> c]
  /\ aiCalls' = Append(aiCalls, "extractor")
  /\ IF r.threw
     THEN Catch(handler, r) /\ extraction' = None
     ELSE /\ extraction' = Some(r.value)
          /\ Goto(IF NeedsClarification(handler, classification[1], r.value)
                  THEN "clarify" ELSE "plan")
  /\ UNCHANGED <<storeVars, tableVars, contextData, prompt, request, intent, handler,
                 classification, response, plannerCalled, executorCalled,
                 executedActions, storeCalls>>

\* Step 2: extractEntities consumes completion c, then step 3's test for
\* clarification.
ExtractWith(c) ==
  LET r == extractEntities(c, classification[1].intent) IN
  /\ completion' = [call |-> "extractor", content |-> c]
  /\ aiCalls' = Append(aiCalls, "extractor")
  /\ IF r.threw
     THEN Catch(handler, r) /\ extraction' = None
     ELSE /\ extraction' = Some(r.value)
          /\ Goto(IF NeedsClarification(handler, classification[1], r.value)
                  THEN "clarify" ELSE "plan")
  /\ UNCHANGED <<storeVars, tableVars, contextData, prompt, request, intent, handler,
                 classification, response, plannerCalled, executorCalled,
                 executedActions, storeCalls>>

Extract ==
  /\ pc = "extract"
  /\ \E c \in HandlerExtractorCompletion : ExtractWith(c)

\* Step 3: the clarification reply. generateClarificationResponse builds
\* its prompt with ambiguousEntities.join(', ') before its try block: a
\* value without join raises a TypeError that reaches the handler's catch
\* block before any completion is requested.
AskClarification ==
  /\ pc = "clarify"
  /\ IF extraction[1].ambiguousEntities = NonArray
     THEN /\ Catch(handler, ThrewOther)
          /\ UNCHANGED <<completion, aiCalls>>
     ELSE \E c \in ClarifierCompletion :
            /\ completion' = [call |-> "clarifier", content |-> c]
            /\ aiCalls' = Append(aiCalls, "clarifier")
            /\ Finish([NoReply EXCEPT !.status = 200, !.type = "clarification",
                         !.message = generateClarificationResponse(c),
                         !.needsClarification = TRUE])
  /\ UNCHANGED <<storeVars, tableVars, contextData, prompt, request, intent, handler,
                 classification, extraction, response, plannerCalled,
                 executorCalled, executedActions, storeCalls>>

\* Step 4: generateResponse consumes completion c, then step 5's
\* execution gate.
PlanWith(c) ==
  LET r == generateResponse(c) IN
  /\ completion' = [call |-> "planner", content |-> c]
  /\ plannerCalled' = TRUE
  /\ aiCalls' = IF ~ r.threw /\ ShouldAutoExecute(r.value)
                THEN aiCalls \o <<"planner", "executor">>
                ELSE Append(aiCalls, "planner")
  /\ IF r.threw
     THEN /\ Catch(handler, r)
          /\ response' = None
          /\ executorCalled' = FALSE
     ELSE /\ response' = Some(r.value)
          /\ executorCalled' = ShouldAutoExecute(r.value)
          /\ Goto(IF ShouldAutoExecute(r.value) THEN "exec" ELSE "respond")
  /\ UNCHANGED <<storeVars, tableVars, contextData, prompt, request, intent, handler,
                 classification, extraction, executedActions, storeCalls>>

Plan ==
  /\ pc = "plan"
  /\ \E c \in HandlerPlannerCompletion : PlanWith(c)

\* One iteration of executeActions: the next action is dispatched and its
\* result pushed. For a null element action.type throws inside the try and
\* action.id throws again inside the catch block, so the error leaves
\* executeActions and reaches the catch block of the handler.
ExecuteAction ==
  /\ pc = "exec"
  /\ Len(executedActions) < Len(response[1].actions)
  /\ LET action == response[1].actions[Len(executedActions) + 1] IN
       IF action = NullAction
       THEN /\ Catch(handler, ThrewOther)
            /\ UNCHANGED <<executedActions, storeCalls>>
       ELSE /\ \E outcome \in (IF SendsRequest(action) THEN StoreOutcomes ELSE {"ok"}) :
                 /\ executedActions' = Append(executedActions, ActionResult(action, outcome))
                 /\ storeCalls' =
                      IF SendsRequest(action)
                      THEN Append(storeCalls, StoreRequestOf(action, outcome))
                      ELSE storeCalls
            /\ UNCHANGED <<pc, caught, reply>>
  /\ UNCHANGED <<storeVars, tableVars, contextData, prompt, aiCalls, request, intent,
                 handler, completion, classification, extraction, response,
                 plannerCalled, executorCalled>>

\* The final reply of type "response".
Respond ==
  /\ \/ pc = "respond"
     \/ pc = "exec" /\ Len(executedActions) = Len(response[1].actions)
  /\ Finish([NoReply EXCEPT !.status = 200, !.type = "response",
               !.message = response[1].message,
               !.suggestedActions = response[1].actions,
               !.executedActions = executedActions,
               !.requiresConfirmation = response[1].requiresConfirmation,
               !.confidence = response[1].confidence])
  /\ UNCHANGED <<storeVars, tableVars, contextData, prompt, aiCalls, request, intent, handler, completion, classification, extraction, response,
                 plannerCalled, executorCalled, executedActions, storeCalls>>

\* POST /api/ai/intent reads the request, validates the message and
\* creates the store client.
IntentRequest ==
  /\ pc \in {"idle", "done"}
  /\ handler' = "intent"
  /\ FreshNext
  /\ \E body \in ChatBodies, clientOk \in BOOLEAN :
       /\ request' = Some(body)
       /\ IF body.malformed
          THEN Catch("intent", ThrewOther)
          ELSE IF InvalidMessage(body.message)
          THEN Finish(BadRequest("Message is required and must be a string"))
          ELSE IF ~ clientOk
          THEN Catch("intent", ThrewOther)
          ELSE Goto("lookup")

\* The message parameter of GET /api/ai/intent: null or a string.
QueryMessages == {m \in Messages : m.jstype \in {"undefined", "string"}}

\* GET /api/ai/intent validates the parameter and classifies without
\* context.
IntentGet ==
  /\ pc \in {"idle", "done"}
  /\ handler' = "intentGet"
  /\ FreshNext
  /\ \E message \in QueryMessages :
       /\ request' = Some([malformed |-> FALSE, message |-> message])
       /\ IF message.jstype = "undefined" \/ message.text = ""
          THEN Finish(BadRequest("Message parameter is required"))
          ELSE Goto("classify")

Next ==
  \/ ChatRequest
  \/ ClarifyRequest
  \/ Lookup
  \/ Classify
  \/ Extract
  \/ AskClarification
  \/ Plan
  \/ ExecuteAction
  \/ Respond

Spec == Init /\ [][Next]_vars

(***************************************************************************)
(* Strings as sanitizeInput and the clarification heuristics read them:    *)
(* Chars gives the characters of the texts of this model, and the string   *)
(* methods work on the characters.                                         *)
(***************************************************************************)
\* Answers a user gives to a clarification question.
AnswerMessages ==
  {"\"Acme\"",
   "payee \"Acme\"",
   "expense category \"Rent\"",
   "Vendor income \"Acme Inc\"",
   "it",
   "add the category",
   "Acme",
   "income category",
   "A payee called ABC Corp"}

\* Texts that a quoted match, the first-word heuristic or sanitizeInput can
\* return.
NameTexts ==
  {"Acme", "Rent", "Acme Inc", "category", "income", "payee", "it",
   "ABC Corp", ""}

Chars(s) ==
  CASE s = "\"Acme\"" -> <<"\"", "A", "c", "m", "e", "\"">>
    [] s = "payee \"Acme\"" -> <<"p", "a", "y", "e", "e", " ", "\"", "A", "c", "m", "e", "\"">>
    [] s = "expense category \"Rent\"" -> <<"e", "x", "p", "e", "n", "s", "e", " ", "c", "a", "t", "e", "g", "o", "r", "y", " ", "\"", "R", "e", "n", "t", "\"">>
    [] s = "Vendor income \"Acme Inc\"" -> <<"V", "e", "n", "d", "o", "r", " ", "i", "n", "c", "o", "m", "e", " ", "\"", "A", "c", "m", "e", " ", "I", "n", "c", "\"">>
    [] s = "it" -> <<"i", "t">>
    [] s = "add the category" -> <<"a", "d", "d", " ", "t", "h", "e", " ", "c", "a", "t", "e", "g", "o", "r", "y">>
    [] s = "Acme" -> <<"A", "c", "m", "e">>
    [] s = "income category" -> <<"i", "n", "c", "o", "m", "e", " ", "c", "a", "t", "e", "g", "o", "r", "y">>
    [] s = "A payee called ABC Corp" -> <<"A", " ", "p", "a", "y", "e", "e", " ", "c", "a", "l", "l", "e", "d", " ", "A", "B", "C", " ", "C", "o", "r", "p">>
    [] s = "Rent" -> <<"R", "e", "n", "t">>
    [] s = "Acme Inc" -> <<"A", "c", "m", "e", " ", "I", "n", "c">>
    [] s = "category" -> <<"c", "a", "t", "e", "g", "o", "r", "y">>
    [] s = "income" -> <<"i", "n", "c", "o", "m", "e">>
    [] s = "payee" -> <<"p", "a", "y", "e", "e">>
    [] s = "vendor" -> <<"v", "e", "n", "d", "o", "r">>
    [] s = "supplier" -> <<"s", "u", "p", "p", "l", "i", "e", "r">>
    [] s = "expense" -> <<"e", "x", "p", "e", "n", "s", "e">>
    [] s = "the" -> <<"t", "h", "e">>
    [] s = "and" -> <<"a", "n", "d">>
    [] s = "for" -> <<"f", "o", "r">>
    [] s = "with" -> <<"w", "i", "t", "h">>
    [] s = "want" -> <<"w", "a", "n", "t">>
    [] s = "add" -> <<"a", "d", "d">>
    [] s = "create" -> <<"c", "r", "e", "a", "t", "e">>
    [] s = "new" -> <<"n", "e", "w">>
    [] s = "ABC Corp" -> <<"A", "B", "C", " ", "C", "o", "r", "p">>
    [] s = "  " -> <<" ", " ">>
    [] s = "" -> <<>>

\* The text with these characters.
Text(cs) == CHOOSE s \in NameTexts : Chars(s) = cs

UpperCaseLetters ==
  <<"A", "B", "C", "D", "E", "F", "G", "H", "I", "J", "K", "L", "M",
    "N", "O", "P", "Q", "R", "S", "T", "U", "V", "W", "X", "Y", "Z">>

LowerCaseLetters ==
  <<"a", "b", "c", "d", "e", "f", "g", "h", "i", "j", "k", "l", "m",
    "n", "o", "p", "q", "r", "s", "t", "u", "v", "w", "x", "y", "z">>

\* String.prototype.toLowerCase
toLowerCase(cs) ==
  [i \in 1..Len(cs) |->
     IF \E k \in 1..26 : UpperCaseLetters[k] = cs[i]
     THEN LowerCaseLetters[CHOOSE k \in 1..26 : UpperCaseLetters[k] = cs[i]]
     ELSE cs[i]]

\* String.prototype.includes
includes(cs, sub) ==
  \E i \in 1..(Len(cs) - Len(sub) + 1) : SubSeq(cs, i, i + Len(sub) - 1) = sub

\* String.prototype.split(' ')
RECURSIVE split(_)
split(cs) ==
  IF \E i \in 1..Len(cs) : cs[i] = " "
  THEN LET i == CHOOSE i \in 1..Len(cs) :
                  cs[i] = " " /\ \A j \in 1..(i - 1) : cs[j] # " "
       IN <<SubSeq(cs, 1, i - 1)>> \o split(SubSeq(cs, i + 1, Len(cs)))
  ELSE <<cs>>

\* Positions i < j of the leftmost match of /"([^"]+)"/: two quotes with at
\* least one character and no quote between them.
QuotePairs(cs) ==
  {p \in (1..Len(cs)) \X (1..Len(cs)) :
     /\ cs[p[1]] = "\""
     /\ cs[p[2]] = "\""
     /\ p[2] > p[1] + 1
     /\ \A k \in (p[1] + 1)..(p[2] - 1) : cs[k] # "\""}

\* userMessage.match(/"([^"]+)"/): None, or the captured group.
quotedMatch(cs) ==
  IF QuotePairs(cs) = {}
  THEN None
  ELSE LET p == CHOOSE p \in QuotePairs(cs) :
                  \A q \in QuotePairs(cs) : p[1] <= q[1]
       IN Some(SubSeq(cs, p[1] + 1, p[2] - 1))

\* sanitizeInput: input.trim().replace(/[<>]/g, '')
sanitizeInput(s) ==
  LET cs == Chars(s)
      kept == {i \in 1..Len(cs) : cs[i] # " "}
      trimmed == IF kept = {}
                 THEN <<>>
                 ELSE SubSeq(cs, CHOOSE i \in kept : \A j \in kept : i <= j,
                             CHOOSE i \in kept : \A j \in kept : i >= j)
  IN Text(SelectSeq(trimmed, LAMBDA c : c \notin {"<", ">"}))

StopWords == {"the", "and", "for", "with", "want", "add", "create", "new"}

\* The words the name heuristic keeps.
CandidateWords(cs) ==
  SelectSeq(split(cs),
            LAMBDA word : /\ Len(word) > 2
                          /\ toLowerCase(word) \notin {Chars(w) : w \in StopWords})

(***************************************************************************)
(* processUserIntent (lib/intent-processor) behind its route, with the     *)
(* completion-backed classifyIntent and generateResponse of lib/openai.    *)
(* Requests without a clarificationContext.                                *)
(***************************************************************************)
ValidUUID == "123e4567-e89b-42d3-a456-426614174000"

\* /^[0-9a-f]{8}-[0-9a-f]{4}-[1-5][0-9a-f]{3}-[89ab][0-9a-f]{3}-[0-9a-f]{12}$/i
\* on the ids of this model.
isValidUUID(uuid) == uuid = ValidUUID

\* The data object of a ProcessedIntent; present = FALSE: no data key.
\* entity is the key the clarification heuristics add to the collected data;
\* the classification prompt asks for no such key.
IntentData ==
  [present : {FALSE}, name : {None}, id : {None}, type : {None},
   search_term : {None}, entity : {None}]
  \cup
  [present : {TRUE}, name : Opt({"", "  ", "ABC Corp"}), id : Opt({"42", ValidUUID}),
   type : Opt({"expense", "monthly"}), search_term : Opt({"bank"}),
   entity : {None}]

NoData ==
  [present |-> FALSE, name |-> None, id |-> None, type |-> None,
   search_term |-> None, entity |-> None]

EmptyData == [NoData EXCEPT !.present = TRUE]

\* What the completion call of lib/openai classifyIntent can produce; "text"
\* is content that JSON.parse rejects, "json" content that parses to an
\* object with these keys.
IntentCompletion ==
  [kind : {"fail", "empty", "text"}, action : {""}, entity : {""},
   data : {NoData}, confidence : {None}, needsClarification : {None},
   clarificationQuestions : {None}]
  \cup
  [kind : {"json"}, action : {"create", "read", "update", "delete", "clarify"},
   entity : {"payee", "category", ""}, data : IntentData,
   confidence : {Some(9000), Some(8000)}, needsClarification : Opt(BOOLEAN),
   clarificationQuestions : Opt(QuestionLists)]

IntentFallback ==
  [action |-> "clarify", entity |-> "payee", data |-> EmptyData,
   confidence |-> Some(0), needsClarification |-> Some(TRUE),
   clarificationQuestions |->
     Some(<<"I didn't understand that. Could you please rephrase your request?">>)]

\* classifyIntent of lib/openai: JSON.parse(content) as it is, and the
\* fallback intent for whatever is thrown inside the try block.
processClassifyIntent(comp) ==
  IF comp.kind \in {"fail", "empty", "text"}
  THEN Returned(IntentFallback)
  ELSE Returned([action |-> comp.action, entity |-> comp.entity,
                 data |-> comp.data, confidence |-> comp.confidence,
                 needsClarification |-> comp.needsClarification,
                 clarificationQuestions |-> comp.clarificationQuestions])

Truthy(o) == o # None /\ o[1] # ""

OperationThrows(msg) ==
  [calls |-> <<>>, threw |-> TRUE, message |-> msg, value |-> "none"]

\* A store request through the service layer: onError is what the service
\* does with an error object of the store ("throw:<message>" or a value).
ServiceCall(op, table, outcome, okValue, errorValue, errorMessage) ==
  [calls |-> <<[op |-> op, table |-> table, outcome |-> outcome]>>,
   threw |-> (outcome = "throw" \/ (outcome = "error" /\ errorMessage # "")),
   message |-> CASE outcome = "throw" -> "request failed"
                 [] outcome = "error" -> errorMessage
                 [] OTHER -> "",
   value |-> CASE outcome = "ok" -> okValue
               [] outcome = "error" /\ errorMessage = "" -> errorValue
               [] OTHER -> "none"]

executePayeeOperation(action, data, outcome) ==
  CASE action = "create" ->
         IF ~ Truthy(data.name)
         THEN OperationThrows("Payee name is required for creation")
         ELSE [ServiceCall("insert", "payees", outcome, "record", "none",
                           "Failed to create payee.")
                 EXCEPT !.calls[1] =
                   [op |-> "insert", table |-> "payees", outcome |-> outcome,
                    name |-> sanitizeInput(data.name[1])]]
    [] action = "read" ->
         IF data.id # None /\ isValidUUID(data.id[1])
         THEN ServiceCall("select", "payees", outcome, "record", "null", "")
         ELSE ServiceCall("select", "payees", outcome, "list", "list", "")
    [] action = "update" ->
         IF data.id = None \/ ~ isValidUUID(data.id[1])
         THEN OperationThrows("Valid payee ID is required for updates")
         ELSE ServiceCall("update", "payees", outcome, "record", "none",
                          "Failed to update payee.")
    [] action = "delete" ->
         IF data.id = None \/ ~ isValidUUID(data.id[1])
         THEN OperationThrows("Valid payee ID is required for deletion")
         ELSE ServiceCall("delete", "payees", outcome, "success", "failure", "")
    [] OTHER -> OperationThrows("Unsupported payee action")

executeCategoryOperation(action, data, outcome) ==
  CASE action = "create" ->
         IF ~ Truthy(data.name)
         THEN OperationThrows("Category name is required for creation")
         ELSE IF data.type = None \/ data.type[1] \notin {"income", "expense"}
         THEN OperationThrows("Category type must be either \"income\" or \"expense\"")
         ELSE [ServiceCall("insert", "categories", outcome, "record", "none",
                           "Failed to create category.")
                 EXCEPT !.calls[1] =
                   [op |-> "insert", table |-> "categories", outcome |-> outcome,
                    name |-> sanitizeInput(data.name[1])]]
    [] action = "read" ->
         IF data.id # None /\ isValidUUID(data.id[1])
         THEN ServiceCall("select", "categories", outcome, "record", "null", "")
         ELSE ServiceCall("select", "categories", outcome, "list", "list", "")
    [] action = "update" ->
         IF data.id = None \/ ~ isValidUUID(data.id[1])
         THEN OperationThrows("Valid category ID is required for updates")
         ELSE ServiceCall("update", "categories", outcome, "record", "none",
                          "Failed to update category.")
    [] action = "delete" ->
         IF data.id = None \/ ~ isValidUUID(data.id[1])
         THEN OperationThrows("Valid category ID is required for deletion")
         ELSE ServiceCall("delete", "categories", outcome, "success", "failure", "")
    [] OTHER -> OperationThrows("Unsupported category action")

\* generateResponse of lib/openai absorbs a failed call and empty content.
\* The response texts are named by the path that produced them.
ResponderCompletion == [kind : {"fail", "empty", "text"}]

processGenerateResponse(comp) ==
  CASE comp.kind = "fail" -> "apology-try-again"
    [] comp.kind = "empty" -> "apology"
    [] OTHER -> "generated"

ProcessReply == [NoReply EXCEPT !.status = 200, !.type = "result"]

\* executeIntent: the operation, the generated response and the success flag.
executeIntent(in, outcome, responder) ==
  IF in.entity \notin {"payee", "category"}
  THEN [calls |-> <<>>,
        reply |-> [ProcessReply EXCEPT !.message = "only-payees-and-categories"]]
  ELSE IF ~ in.data.present
  THEN [calls |-> <<>>,
        reply |-> [ProcessReply EXCEPT !.message = "error-while-trying",
                                       !.error = Some("TypeError")]]
  ELSE LET op == IF in.entity = "payee"
                 THEN executePayeeOperation(in.action, in.data, outcome)
                 ELSE executeCategoryOperation(in.action, in.data, outcome)
       IN IF op.threw
          THEN [calls |-> op.calls,
                reply |-> [ProcessReply EXCEPT !.message = "error-while-trying",
                                               !.error = Some(op.message)]]
          ELSE [calls |-> op.calls,
                reply |-> [ProcessReply EXCEPT
                             !.message = processGenerateResponse(responder),
                             !.success = (op.value \notin {"null", "failure"})]]

\* Bodies of the processUserIntent route that carry no clarification
\* context.
ProcessBodies ==
  [malformed : {TRUE}, message : {[jstype |-> "undefined", text |-> ""]},
   clarificationContext : {None}]
  \cup [malformed : {FALSE}, message : Messages, clarificationContext : {None}]

\* The route reads the request and validates the message.
ProcessRequest ==
  /\ pc \in {"idle", "done"}
  /\ handler' = "process"
  /\ FreshNext
  /\ \E body \in ProcessBodies :
       /\ request' = Some(body)
       /\ IF body.malformed
          THEN /\ pc' = "done"
               /\ caught' = Some([aiError |-> FALSE, message |-> "", code |-> ""])
               /\ reply' = [NoReply EXCEPT !.status = 500, !.type = "error",
                              !.message = "I apologize, but I encountered an error. Please try again.",
                              !.error = Some("Internal server error")]
          ELSE IF InvalidMessage(body.message)
          THEN Finish(BadRequest("Message is required and must be a string"))
          ELSE Goto("processClassify")

\* Mutant: the new context starts at step 0.
clarificationCtxStepZero(in) ==
  [originalIntent |-> in,
   clarificationStep |-> 0,
   collectedData |-> IF in.data.present THEN in.data ELSE EmptyData,
   pendingQuestions |-> OrArray(in.clarificationQuestions, <<>>)]

\* The clarification context opened for a classification.
clarificationCtx(in) ==
  [originalIntent |-> in,
   clarificationStep |-> 1,
   collectedData |-> IF in.data.present THEN in.data ELSE EmptyData,
   pendingQuestions |-> OrArray(in.clarificationQuestions, <<>>)]

\* processUserIntent classifies from completion c and, when clarification
\* is needed, returns the first question with a new clarification context.
ProcessClassifyWith(c) ==
  LET r == processClassifyIntent(c)
      in == r.value
  IN /\ completion' = [call |-> "intent", content |-> c]
     /\ IF r.threw
        THEN /\ intent' = None
             /\ Finish([ProcessReply EXCEPT
                          !.message = "error-processing-request",
                          !.error = Some(r.message)])
        ELSE /\ intent' = Some(in)
             /\ IF in.needsClarification = Some(TRUE)
                THEN Finish([ProcessReply EXCEPT
                       !.message =
                          IF in.clarificationQuestions # None
                             /\ in.clarificationQuestions[1] # <<>>
                          THEN in.clarificationQuestions[1][1]
                          ELSE "I need more information to help you.",
                       !.needsClarification = TRUE,
                       !.clarificationContext = Some(clarificationCtx(in))])
                ELSE Goto("processExecute")
     /\ UNCHANGED <<storeVars, tableVars, contextData, prompt, aiCalls, request, handler, classification, extraction, response,
                    plannerCalled, executorCalled, executedActions, storeCalls>>

ProcessClassify ==
  /\ pc = "processClassify"
  /\ \E c \in IntentCompletion : ProcessClassifyWith(c)

\* processUserIntent executes the classified intent.
ProcessExecute ==
  /\ pc = "processExecute"
  /\ \E outcome \in StoreOutcomes, responder \in ResponderCompletion :
       LET res == executeIntent(intent[1], outcome, responder) IN
       /\ storeCalls' = storeCalls \o res.calls
       /\ Finish(res.reply)
  /\ UNCHANGED <<storeVars, tableVars, contextData, prompt, aiCalls, request, intent, handler, completion, classification, extraction,
                 response, plannerCalled, executorCalled, executedActions>>

NextProcess ==
  \/ ProcessRequest
  \/ ProcessClassify
  \/ ProcessExecute

SpecProcess == Init /\ [][NextProcess]_vars

(***************************************************************************)
(* handleClarificationResponse (lib/intent-processor): requests of the     *)
(* processUserIntent route that carry the clarification context of the     *)
(* previous reply.                                                         *)
(***************************************************************************)
MaxSteps == 3

\* The entity kind and the category type read from the answer.
detectEntity(lowerMessage, data) ==
  IF \/ includes(lowerMessage, Chars("payee"))
     \/ includes(lowerMessage, Chars("vendor"))
     \/ includes(lowerMessage, Chars("supplier"))
  THEN [data EXCEPT !.entity = Some("payee")]
  ELSE IF \/ includes(lowerMessage, Chars("category"))
          \/ includes(lowerMessage, Chars("expense"))
          \/ includes(lowerMessage, Chars("income"))
  THEN [data EXCEPT
          !.entity = Some("category"),
          !.type = IF includes(lowerMessage, Chars("income"))
                   THEN Some("income")
                   ELSE IF includes(lowerMessage, Chars("expense"))
                   THEN Some("expense")
                   ELSE data.type]
  ELSE data

\* Mutant: the name is read from the answer also when one was collected.
extractNameAlways(userMessage, data) ==
  IF quotedMatch(Chars(userMessage)) # None
  THEN [data EXCEPT !.name = Some(Text(quotedMatch(Chars(userMessage))[1]))]
  ELSE IF CandidateWords(Chars(userMessage)) # <<>>
  THEN [data EXCEPT !.name = Some(Text(CandidateWords(Chars(userMessage))[1]))]
  ELSE data

\* The name read from the answer when none was collected before.
extractName(userMessage, data) ==
  IF Truthy(data.name)
  THEN data
  ELSE IF quotedMatch(Chars(userMessage)) # None
  THEN [data EXCEPT !.name = Some(Text(quotedMatch(Chars(userMessage))[1]))]
  ELSE IF CandidateWords(Chars(userMessage)) # <<>>
  THEN [data EXCEPT !.name = Some(Text(CandidateWords(Chars(userMessage))[1]))]
  ELSE data

\* updatedData: the collected data merged with what the answer provides.
updatedData(userMessage, context) ==
  extractName(userMessage,
              detectEntity(toLowerCase(Chars(userMessage)),
                           [context.collectedData EXCEPT !.present = TRUE]))

GenericQuestion == "Could you provide more details about what you want to create?"

\* Mutant: the question asked before is asked again.
nextQuestionRepeated(context) ==
  IF context.clarificationStep <= Len(context.pendingQuestions)
  THEN context.pendingQuestions[context.clarificationStep]
  ELSE GenericQuestion

\* context.pendingQuestions[context.clarificationStep] || the generic
\* question; arrays count from 0.
nextQuestion(context) ==
  IF context.clarificationStep + 1 <= Len(context.pendingQuestions)
  THEN context.pendingQuestions[context.clarificationStep + 1]
  ELSE GenericQuestion

handleClarificationResponse(userMessage, context, outcome, responder) ==
  LET data == updatedData(userMessage, context) IN
  IF ~ (Truthy(data.entity) /\ Truthy(data.name))
  THEN [calls |-> <<>>,
        intent |-> None,
        reply |-> [ProcessReply EXCEPT
                     !.message = nextQuestion(context),
                     !.needsClarification = TRUE,
                     !.clarificationContext =
                        Some([context EXCEPT
                                !.clarificationStep = context.clarificationStep + 1,
                                !.collectedData = data])]]
  ELSE LET updatedIntent == [context.originalIntent EXCEPT
                               !.entity = data.entity[1],
                               !.data = data,
                               !.needsClarification = Some(FALSE)]
           res == executeIntent(updatedIntent, outcome, responder)
       IN [calls |-> res.calls, intent |-> Some(updatedIntent),
           reply |-> res.reply]

\* Completions of classifyIntent for the turns that open a clarification.
ClarificationQuestions ==
  {<<>>,
   <<"What would you like to add - a payee or a category?">>,
   <<"What would you like to add - a payee or a category?",
     "What is the name of the item you want to add?">>}

UnclearIntentCompletion ==
  {c \in [kind : {"fail", "json"}, action : {"create", "clarify", ""},
          entity : {"payee", "category", ""},
          data : {NoData, EmptyData,
                  [EmptyData EXCEPT !.name = Some("ABC Corp")],
                  [EmptyData EXCEPT !.name = Some("")],
                  [EmptyData EXCEPT !.type = Some("expense")]},
          confidence : {None, Some(9000)},
          needsClarification : {None, Some(TRUE)},
          clarificationQuestions : Opt(ClarificationQuestions)] :
     IF c.kind = "fail"
     THEN /\ c.action = "" /\ c.entity = "" /\ c.data = NoData
          /\ c.confidence = None /\ c.needsClarification = None
          /\ c.clarificationQuestions = None
     ELSE c.action # "" /\ c.confidence = Some(9000)}

ProcessClassifyUnclear ==
  /\ pc = "processClassify"
  /\ \E c \in UnclearIntentCompletion : ProcessClassifyWith(c)

\* The client answers the question of the previous reply and sends the
\* clarification context of that reply back.
ProcessAnswerRequest ==
  /\ pc = "done"
  /\ handler = "process"
  /\ reply.clarificationContext # None
  /\ reply.clarificationContext[1].clarificationStep < MaxSteps
  /\ handler' = "process"
  /\ FreshNext
  /\ \E message \in {m \in Messages : InvalidMessage(m)}
                    \cup {[jstype |-> "string", text |-> a] : a \in AnswerMessages} :
       /\ request' = Some([malformed |-> FALSE, message |-> message,
                           clarificationContext |-> reply.clarificationContext])
       /\ IF InvalidMessage(message)
          THEN Finish(BadRequest("Message is required and must be a string"))
          ELSE Goto("processAnswer")

\* processUserIntent with a clarification context.
ProcessAnswer ==
  /\ pc = "processAnswer"
  /\ \E outcome \in StoreOutcomes, responder \in ResponderCompletion :
       LET res == handleClarificationResponse(request[1].message.text,
                                              request[1].clarificationContext[1],
                                              outcome, responder)
       IN /\ storeCalls' = storeCalls \o res.calls
          /\ intent' = res.intent
          /\ Finish(res.reply)
  /\ UNCHANGED <<storeVars, tableVars, contextData, prompt, aiCalls, request, handler, completion, classification, extraction,
                 response, plannerCalled, executorCalled, executedActions>>

NextClarification ==
  \/ ProcessRequest
  \/ ProcessClassifyUnclear
  \/ ProcessExecute
  \/ ProcessAnswerRequest
  \/ ProcessAnswer

SpecClarification == Init /\ [][NextClarification]_vars

(***************************************************************************)
(* Every route of the assistant: chat, clarify, intent and the             *)
(* processUserIntent route.                                                *)
(***************************************************************************)
\* The planner step with completions that propose at most one action.
PlanSingle ==
  /\ pc = "plan"
  /\ \E c \in {p \in HandlerPlannerCompletion :
                  p.actions # None => Len(p.actions[1]) <= 1} : PlanWith(c)

NextRoutes ==
  \/ ChatRequest
  \/ ClarifyRequest
  \/ IntentRequest
  \/ IntentGet
  \/ Lookup
  \/ Classify
  \/ Extract
  \/ AskClarification
  \/ PlanSingle
  \/ ExecuteAction
  \/ Respond
  \/ ProcessRequest
  \/ ProcessClassifyUnclear
  \/ ProcessExecute
  \/ ProcessAnswerRequest
  \/ ProcessAnswer

SpecRoutes == Init /\ [][NextRoutes]_vars

(***************************************************************************)
(* The conversation store of the side panel (useAIStore) with the          *)
(* components that call it: ChatInterface (send, confirm, new chat),       *)
(* AISidePanel (conversation switch) and ClarificationDialog (submit).     *)
(* The replies of the routes are drawn by kind.                            *)
(***************************************************************************)
MaxConversations == 2
MaxMessages == 8
BriefMessages == 3

\* messages.slice(-5)
HistoryWindow == 5

\* Mutant: the whole message list is sent.
conversationHistoryAll(messages) == messages

\* The conversationHistory of a request: messages.slice(-5).
conversationHistory(messages) ==
  IF Len(messages) <= HistoryWindow
  THEN messages
  ELSE SubSeq(messages, Len(messages) - HistoryWindow + 1, Len(messages))

ConversationIds == {conversations[i].id : i \in 1..Len(conversations)}

\* The messages of a conversation of list convs; [] when there is none.
MessagesOf(convs, id) ==
  IF \E i \in 1..Len(convs) : convs[i].id = id
  THEN convs[CHOOSE i \in 1..Len(convs) : convs[i].id = id].messages
  ELSE <<>>

\* createConversation: a new conversation in front of the list.
createConversation(convs, id) == <<[id |-> id, messages |-> <<>>]>> \o convs

\* generateId for a message: a fresh id, written as the conversation and
\* the position the message is created at.
generateId(conv) == <<conv.id, Len(conv.messages) + 1>>

\* Mutant: the message is added to every conversation.
addMessageToAll(convs, conversationId, role, type) ==
  [i \in 1..Len(convs) |->
     [convs[i] EXCEPT !.messages =
        Append(@, [id |-> generateId(convs[i]), role |-> role,
                   type |-> type, content |-> "original"])]]

\* addMessage: the message, with a generated id, at the end of the list of
\* the conversation with this id; no conversation changes when none has it.
addMessage(convs, conversationId, role, type) ==
  [i \in 1..Len(convs) |->
     IF convs[i].id = conversationId
     THEN [convs[i] EXCEPT !.messages =
             Append(@, [id |-> generateId(convs[i]), role |-> role,
                        type |-> type, content |-> "original"])]
     ELSE convs[i]]

\* updateMessage: the updates merged into the messages with this id.
updateMessage(convs, conversationId, messageId, updates) ==
  [i \in 1..Len(convs) |->
     IF convs[i].id = conversationId
     THEN [convs[i] EXCEPT !.messages =
             [k \in 1..Len(@) |->
                IF @[k].id = messageId
                THEN [@[k] EXCEPT !.content = updates.content]
                ELSE @[k]]]
     ELSE convs[i]]

\* Number of messages the store holds.
RECURSIVE TotalMessages(_)
TotalMessages(convs) ==
  IF convs = <<>> THEN 0 ELSE Len(Head(convs).messages) + TotalMessages(Tail(convs))

\* Whether the store can take n more messages after the replies of the
\* requests in flight, with at most limit messages in all.
Room(n, limit) == TotalMessages(conversations) + Len(fetches) + n <= limit

RemoveAt(seq, i) == SubSeq(seq, 1, i - 1) \o SubSeq(seq, i + 1, Len(seq))

\* ChatInterface "New Chat": createConversation makes the new conversation
\* the current one.
NewConversation ==
  /\ nextId <= MaxConversations
  /\ conversations' = createConversation(conversations, nextId)
  /\ currentConversationId' = Some(nextId)
  /\ nextId' = nextId + 1
  /\ UNCHANGED <<isProcessing, error, pendingClarification, fetches,
                 isSubmitting, clarificationOwner, routeVars, tableVars>>

\* AISidePanel conversation button: setCurrentConversation.
SwitchConversation ==
  /\ \E id \in ConversationIds :
       /\ currentConversationId # Some(id)
       /\ currentConversationId' = Some(id)
  /\ UNCHANGED <<conversations, isProcessing, error, pendingClarification,
                 fetches, isSubmitting, nextId, clarificationOwner, routeVars, tableVars>>

\* deleteConversation
DeleteConversation ==
  /\ \E id \in ConversationIds :
       /\ conversations' = SelectSeq(conversations, LAMBDA conv : conv.id # id)
       /\ currentConversationId' =
            IF currentConversationId = Some(id) THEN None ELSE currentConversationId
  /\ UNCHANGED <<isProcessing, error, pendingClarification, fetches,
                 isSubmitting, nextId, clarificationOwner, routeVars, tableVars>>

\* clearAllConversations
ClearAllConversations ==
  /\ conversations # <<>>
  /\ conversations' = <<>>
  /\ currentConversationId' = None
  /\ pendingClarification' = None
  /\ clarificationOwner' = None
  /\ UNCHANGED <<isProcessing, error, fetches, isSubmitting, nextId, routeVars, tableVars>>

\* updateMessage with updates that replace the content.
UpdateMessage ==
  /\ \E i \in 1..Len(conversations) :
       \E k \in 1..Len(conversations[i].messages) :
         /\ conversations[i].messages[k].content = "original"
         /\ conversations' =
              updateMessage(conversations, conversations[i].id,
                            conversations[i].messages[k].id,
                            [content |-> "edited"])
  /\ UNCHANGED <<currentConversationId, isProcessing, error,
                 pendingClarification, fetches, isSubmitting, nextId,
                 clarificationOwner, routeVars, tableVars>>

\* ChatInterface.handleSendMessage: sendMessage(message, conversationId)
\* up to the fetch; conversationId is the current conversation of the panel.
\* The target is created when there is none, the user message is added and
\* the request leaves with the history of the current conversation.
SendMessageWithin(limit) ==
  /\ ~ isProcessing
  /\ (currentConversationId = None) => nextId <= MaxConversations
  /\ Room(2, limit)
  /\ LET created == currentConversationId = None
         target == IF created THEN nextId ELSE currentConversationId[1]
         convs == addMessage(IF created
                             THEN createConversation(conversations, target)
                             ELSE conversations,
                             target, "user", "message")
     IN /\ conversations' = convs
        /\ currentConversationId' = Some(target)
        /\ nextId' = IF created THEN nextId + 1 ELSE nextId
        /\ fetches' = Append(fetches,
             [kind |-> "send", target |-> target,
              history |-> conversationHistory(MessagesOf(convs, target))])
  /\ isProcessing' = TRUE
  /\ error' = None
  /\ UNCHANGED <<pendingClarification, isSubmitting, clarificationOwner,
                 routeVars, tableVars>>

SendMessage == SendMessageWithin(MaxMessages)

\* The reply of POST /api/ai/chat arrives: the rest of sendMessage.
SendMessageReply ==
  /\ \E i \in 1..Len(fetches) :
       /\ fetches[i].kind = "send"
       /\ fetches' = RemoveAt(fetches, i)
       /\ \E result \in {"clarification", "response", "failed"} :
            CASE result = "clarification" ->
                   /\ pendingClarification' = Some([type |-> "clarification"])
                   /\ clarificationOwner' = Some(fetches[i].target)
                   /\ conversations' = addMessage(conversations, fetches[i].target,
                                                  "assistant", "clarification")
                   /\ error' = error
              [] result = "response" ->
                   /\ pendingClarification' = None
                   /\ clarificationOwner' = None
                   /\ conversations' = addMessage(conversations, fetches[i].target,
                                                  "assistant", "response")
                   /\ error' = error
              [] OTHER ->
                   /\ error' = Some("HTTP error")
                   /\ conversations' =
                        IF currentConversationId # None
                        THEN addMessage(conversations, currentConversationId[1],
                                        "assistant", "error")
                        ELSE conversations
                   /\ UNCHANGED <<pendingClarification, clarificationOwner>>
  /\ isProcessing' = FALSE
  /\ UNCHANGED <<currentConversationId, isSubmitting, nextId, routeVars, tableVars>>

\* ClarificationDialog.handleSubmit: handleClarification(responses,
\* originalMessage) up to the fetch. Without a current conversation
\* handleClarification throws before it sends anything.
SubmitClarificationWithin(limit) ==
  /\ ~ isSubmitting
  /\ Room(1, limit)
  /\ IF currentConversationId = None
     THEN /\ error' = Some("No active conversation")
          /\ isProcessing' = FALSE
          /\ UNCHANGED <<fetches, isSubmitting>>
     ELSE /\ error' = None
          /\ isProcessing' = TRUE
          /\ isSubmitting' = TRUE
          /\ fetches' = Append(fetches,
               [kind |-> "clarify", target |-> currentConversationId[1],
                history |-> <<>>])
  /\ UNCHANGED <<conversations, currentConversationId, pendingClarification,
                 nextId, clarificationOwner, routeVars, tableVars>>

\* The reply of POST /api/ai/clarify arrives: the rest of
\* handleClarification and of handleSubmit.
SubmitClarificationReply ==
  /\ \E i \in 1..Len(fetches) :
       /\ fetches[i].kind = "clarify"
       /\ fetches' = RemoveAt(fetches, i)
       /\ \E result \in {"clarification", "response", "failed"} :
            CASE result = "clarification" ->
                   /\ conversations' = addMessage(conversations, fetches[i].target,
                                                  "assistant", "clarification")
                   /\ UNCHANGED <<pendingClarification, clarificationOwner, error>>
              [] result = "response" ->
                   /\ pendingClarification' = None
                   /\ clarificationOwner' = None
                   /\ conversations' = addMessage(conversations, fetches[i].target,
                                                  "assistant", "response")
                   /\ error' = error
              [] OTHER ->
                   /\ error' = Some("HTTP error")
                   /\ UNCHANGED <<conversations, pendingClarification,
                                  clarificationOwner>>
  /\ isProcessing' = FALSE
  /\ isSubmitting' = FALSE
  /\ UNCHANGED <<currentConversationId, nextId, routeVars, tableVars>>

\* A suggested-action button of ChatInterface: confirmAction(actionId) up to
\* the fetch.
ConfirmActionWithin(limit) ==
  /\ ~ isProcessing
  /\ currentConversationId # None
  /\ \E k \in 1..Len(MessagesOf(conversations, currentConversationId[1])) :
       MessagesOf(conversations, currentConversationId[1])[k].type = "response"
  /\ Room(1, limit)
  /\ isProcessing' = TRUE
  /\ error' = None
  /\ fetches' = Append(fetches,
       [kind |-> "confirm", target |-> currentConversationId[1],
        history |-> <<>>])
  /\ UNCHANGED <<conversations, currentConversationId, pendingClarification,
                 isSubmitting, nextId, clarificationOwner, routeVars, tableVars>>

\* The reply to the confirmation arrives: the rest of confirmAction.
ConfirmActionReply ==
  /\ \E i \in 1..Len(fetches) :
       /\ fetches[i].kind = "confirm"
       /\ fetches' = RemoveAt(fetches, i)
  /\ \E ok \in BOOLEAN :
       IF ok
       THEN /\ conversations' =
                 IF currentConversationId # None
                 THEN addMessage(conversations, currentConversationId[1],
                                 "assistant", "confirmation")
                 ELSE conversations
            /\ error' = error
       ELSE /\ error' = Some("HTTP error")
            /\ conversations' = conversations
  /\ isProcessing' = FALSE
  /\ UNCHANGED <<currentConversationId, pendingClarification, isSubmitting,
                 nextId, clarificationOwner, routeVars, tableVars>>

\* The turns of the panel: new chat, switch, send.
NextHistory ==
  \/ NewConversation
  \/ SwitchConversation
  \/ SendMessage
  \/ SendMessageReply

SpecHistory == Init /\ [][NextHistory]_vars

\* Conversations of at most BriefMessages messages.
SendMessageBrief == SendMessageWithin(BriefMessages)
SubmitClarification == SubmitClarificationWithin(BriefMessages)
ConfirmAction == ConfirmActionWithin(BriefMessages)

NextStore ==
  \/ NewConversation
  \/ SwitchConversation
  \/ DeleteConversation
  \/ ClearAllConversations
  \/ UpdateMessage
  \/ SendMessageBrief
  \/ SendMessageReply
  \/ SubmitClarification
  \/ SubmitClarificationReply
  \/ ConfirmAction
  \/ ConfirmActionReply

SpecStore == Init /\ [][NextStore]_vars

(***************************************************************************)
(* The category routes (app/api/categories): POST creates a category and   *)
(* PUT updates the category with the id of the path. The table gives the   *)
(* ids 1, 2, ... to the rows; parent_id 0 is null.                         *)
(***************************************************************************)
MaxCategories == 3

Null == 0

\* Bodies of the category routes; the name "" is a name that is missing or
\* blank, colorOk is false for a color that is not #RRGGBB, and a parent_id
\* of None is a body without the key.
CategoryBodies ==
  [name : {"", "Food"}, colorOk : BOOLEAN,
   parent_id : Opt(Null..MaxCategories)]

\* The reply of a category route.
CategoryReply(h, body, status, message) ==
  /\ handler' = h
  /\ pc' = "done"
  /\ request' = Some(body)
  /\ reply' = [NoReply EXCEPT !.status = status, !.error = message]
  /\ UNCHANGED <<completion, classification, extraction, response,
                 plannerCalled, executorCalled, executedActions, storeCalls,
                 caught, intent, contextData, prompt, aiCalls, storeVars>>

\* POST /api/categories
CategoryPost ==
  /\ pc \in {"idle", "done"}
  /\ \E body \in CategoryBodies, authorized \in BOOLEAN,
        outcome \in {"ok", "error"} :
       IF ~ authorized
       THEN /\ CategoryReply("categoryPost", body, 401, Some("Unauthorized"))
            /\ UNCHANGED categoryRows
       ELSE IF body.name = ""
       THEN /\ CategoryReply("categoryPost", body, 400, Some("Name is required"))
            /\ UNCHANGED categoryRows
       ELSE IF ~ body.colorOk
       THEN /\ CategoryReply("categoryPost", body, 400,
                             Some("Invalid color format. Use hex format (#RRGGBB)"))
            /\ UNCHANGED categoryRows
       ELSE IF /\ body.parent_id \notin {None, Some(Null)}
               /\ body.parent_id[1] \notin 1..Len(categoryRows)
       THEN /\ CategoryReply("categoryPost", body, 400,
                             Some("Parent category not found"))
            /\ UNCHANGED categoryRows
       ELSE IF outcome = "error"
       THEN /\ CategoryReply("categoryPost", body, 500,
                             Some("Failed to create category"))
            /\ UNCHANGED categoryRows
       ELSE /\ Len(categoryRows) < MaxCategories
            /\ CategoryReply("categoryPost", body, 201, None)
            /\ categoryRows' =
                 Append(categoryRows,
                        [parent_id |-> IF body.parent_id = None
                                       THEN Null
                                       ELSE body.parent_id[1]])

\* PUT /api/categories/[id]
CategoryPut ==
  /\ pc \in {"idle", "done"}
  /\ \E id \in 1..MaxCategories, body \in CategoryBodies,
        authorized \in BOOLEAN, outcome \in {"ok", "error"} :
       IF ~ authorized
       THEN /\ CategoryReply("categoryPut", body, 401, Some("Unauthorized"))
            /\ UNCHANGED categoryRows
       ELSE IF body.name = ""
       THEN /\ CategoryReply("categoryPut", body, 400, Some("Name is required"))
            /\ UNCHANGED categoryRows
       ELSE IF ~ body.colorOk
       THEN /\ CategoryReply("categoryPut", body, 400,
                             Some("Invalid color format. Use hex format (#RRGGBB)"))
            /\ UNCHANGED categoryRows
       ELSE IF body.parent_id = Some(id)
       THEN /\ CategoryReply("categoryPut", body, 400,
                             Some("Category cannot be its own parent"))
            /\ UNCHANGED categoryRows
       ELSE IF /\ body.parent_id \notin {None, Some(Null)}
               /\ body.parent_id[1] \notin 1..Len(categoryRows)
       THEN /\ CategoryReply("categoryPut", body, 400,
                             Some("Parent category not found"))
            /\ UNCHANGED categoryRows
       ELSE IF id \notin 1..Len(categoryRows)
       THEN /\ CategoryReply("categoryPut", body, 404, Some("Category not found"))
            /\ UNCHANGED categoryRows
       ELSE IF outcome = "error"
       THEN /\ CategoryReply("categoryPut", body, 500,
                             Some("Failed to update category"))
            /\ UNCHANGED categoryRows
       ELSE /\ CategoryReply("categoryPut", body, 200, None)
            /\ categoryRows' =
                 IF body.parent_id = None
                 THEN categoryRows
                 ELSE [categoryRows EXCEPT ![id].parent_id = body.parent_id[1]]

NextCategories ==
  \/ CategoryPost
  \/ CategoryPut

SpecCategories == Init /\ [][NextCategories]_vars

(***************************************************************************)
(* The context lookups with any rows: the chat, clarify and intent         *)
(* handlers against a store that holds no or one payee and no or one       *)
(* category.                                                               *)
(***************************************************************************)
LookupRows == [payees : {<<>>, <<"ABC Corp">>}, categories : {<<>>, <<"Rent">>}]

LookupAny ==
  /\ pc = "lookup"
  /\ \E ok \in BOOLEAN, rows \in LookupRows :
       LookupWith(ok, rows.payees, rows.categories)

NextContext ==
  \/ ChatRequest
  \/ ClarifyRequest
  \/ IntentRequest
  \/ IntentGet
  \/ LookupAny
  \/ Classify
  \/ Extract
  \/ AskClarification
  \/ PlanSingle
  \/ ExecuteAction
  \/ Respond

SpecContext == Init /\ [][NextContext]_vars

(***************************************************************************)
(* The classifier and the extractor on their own: the chat handler up to   *)
(* the component, which then draws from every completion of the component. *)
(***************************************************************************)
ClassifyAny ==
  /\ pc = "classify"
  /\ \E c \in ClassifierCompletion : ClassifyWith(c)

NextClassifier ==
  \/ ChatRequest
  \/ Lookup
  \/ ClassifyAny

SpecClassifier == Init /\ [][NextClassifier]_vars

\* One classification per intent of the enumerated set, and the fallback.
EveryIntentCompletion ==
  {c \in ClassifierCompletion :
     /\ c.kind \in {"text", "json"}
     /\ c.kind = "json" =>
          /\ c.intent \in {Some(i) : i \in Intent}
          /\ c.confidence = Some(9900)
          /\ c.requiresClarification = Some(FALSE)
          /\ c.clarificationQuestions = None}

ClassifyEveryIntent ==
  /\ pc = "classify"
  /\ \E c \in EveryIntentCompletion : ClassifyWith(c)

ExtractAny ==
  /\ pc = "extract"
  /\ \E c \in ExtractorCompletion : ExtractWith(c)

NextExtractor ==
  \/ ChatRequest
  \/ Lookup
  \/ ClassifyEveryIntent
  \/ ExtractAny

SpecExtractor == Init /\ [][NextExtractor]_vars

(***************************************************************************)
(* executeActions on its own: the chat and clarify handlers with one       *)
(* classification and one extraction that need no clarification, and a     *)
(* planner result that passes the gate with any batch of actions, the      *)
(* unknown types and entities, the actions without data and the null       *)
(* elements included.                                                      *)
(***************************************************************************)
ExecutorActionTypes == ActionTypes \cup {"archive"}
ExecutorEntities == ActionEntities \cup {"invoice"}

\* hasData only matters where the switch reaches a request.
ActionShape ==
  {a \in [type : ExecutorActionTypes, entity : ExecutorEntities,
          hasData : BOOLEAN] :
     (a.type \notin ActionTypes \/ a.entity \notin ActionEntities) => a.hasData}

ActionIds == <<"a1", "a2", "a3", "a4">>

\* The i-th action of a batch has the i-th id; a null element has none.
ActionBatches ==
  {[i \in 1..Len(shapes) |->
      IF shapes[i].type = "null"
      THEN NullAction
      ELSE [id |-> ActionIds[i], type |-> shapes[i].type,
            entity |-> shapes[i].entity, hasData |-> shapes[i].hasData]] :
     shapes \in SeqUpTo(ActionShape \cup
                          {[type |-> "null", entity |-> "null", hasData |-> FALSE]},
                        MaxActions)}

ClassifyCreate ==
  /\ pc = "classify"
  /\ ClassifyWith([kind |-> "json", intent |-> Some("CREATE_PAYEE"),
                   confidence |-> Some(9900),
                   requiresClarification |-> Some(FALSE),
                   clarificationQuestions |-> None])

ExtractName ==
  /\ pc = "extract"
  /\ ExtractWith([kind |-> "json", entitiesTag |-> "array",
                  entities |-> <<[type |-> "name", value |-> "ABC Corp"]>>,
                  confidence |-> Some(9000), ambiguousEntities |-> None,
                  missingRequiredFields |-> None])

PlanAnyBatch ==
  /\ pc = "plan"
  /\ \E batch \in ActionBatches :
       PlanWith([kind |-> "json", message |-> None, actions |-> Some(batch),
                 requiresConfirmation |-> None, confidence |-> Some(9900)])

NextExecutor ==
  \/ ChatRequest
  \/ ClarifyRequest
  \/ Lookup
  \/ ClassifyCreate
  \/ ExtractName
  \/ PlanAnyBatch
  \/ ExecuteAction
  \/ Respond

SpecExecutor == Init /\ [][NextExecutor]_vars

(***************************************************************************)
(* Properties.                                                             *)
(***************************************************************************)
\* Store requests of the turn that write (insert, update or delete).
StoreWrites == {i \in 1..Len(storeCalls) : storeCalls[i].op # "select"}

HasDestructive(actions) ==
  \E i \in 1..Len(actions) : actions[i].type \in {"delete", "update"}

\* C1: in the chat and clarify handlers the planner's actions are handed to
\* the executor iff the planner result has confidence > 0.8 and
\* requiresConfirmation = false; otherwise nothing is executed and
\* executedActions is empty.
C1_ExecutionGate ==
  (handler \in {"chat", "clarify"} /\ response # None) =>
    LET r == response[1]
        open == r.confidence > 8000 /\ ~ r.requiresConfirmation
    IN /\ executorCalled <=> open
       /\ ~ open => (executedActions = <<>> /\ StoreWrites = {})
       /\ (pc = "done" /\ ~ open) => reply.executedActions = <<>>
       /\ (pc = "done" /\ open) =>
            Len(reply.executedActions) = Len(r.actions)

\* C1 witness: the clarify handler executed an action at confidence 0.8001.
C1_Witness ==
  /\ handler = "clarify"
  /\ pc = "done"
  /\ response # None
  /\ reply.confidence = 8001
  /\ ~ reply.requiresConfirmation
  /\ Len(reply.executedActions) > 0

\* C2: every planner result with a delete or update action has
\* requiresConfirmation true, so the chat handler auto-executes no delete or
\* update whatever the confidence.
C2_DestructiveNeedsConfirmation ==
  (handler = "chat" /\ response # None /\ HasDestructive(response[1].actions)) =>
    /\ response[1].requiresConfirmation
    /\ ~ executorCalled
    /\ \A i \in StoreWrites : storeCalls[i].op \notin {"delete", "update"}

\* C5: a failed completion call of classifyIntent raises an AIServiceError
\* with a code and no classification; the chat handler answers 500 with that
\* code, and 500 without a code for an error that is not an AIServiceError.
C5_ClassifierFailureSurfaced ==
  handler = "chat" =>
    /\ (completion.call = "classifier" /\ completion.content.kind = "fail") =>
         /\ classification = None
         /\ caught # None
         /\ caught[1].aiError
         /\ caught[1].code = "CLASSIFICATION_ERROR"
         /\ pc = "done"
         /\ reply.status = 500
         /\ reply.code = Some("CLASSIFICATION_ERROR")
    /\ (caught # None /\ ~ caught[1].aiError) =>
         /\ reply.status = 500
         /\ reply.code = None

\* C5 witness: the chat handler answered a failed classifier completion.
C5_Witness ==
  /\ handler = "chat"
  /\ completion.call = "classifier"
  /\ completion.content.kind = "fail"
  /\ reply.status = 500

\* The clarification condition of the chat handler, as the claim states it.
C9_Needed ==
  \/ classification[1].requiresClarification
  \/ extraction[1].missingRequiredFields # <<>>

\* C9: the chat handler answers type "clarification" with
\* needsClarification true exactly when requiresClarification is true or a
\* required field is missing; then the planner is not called and nothing is
\* executed; otherwise the answer has type "response".
C9_ClarificationOrResponse ==
  (handler = "chat" /\ pc = "done" /\ classification # None /\ extraction # None) =>
    /\ (reply.type = "clarification" /\ reply.needsClarification) <=> C9_Needed
    /\ C9_Needed => (~ plannerCalled /\ ~ executorCalled /\ StoreWrites = {})
    /\ ~ C9_Needed => reply.type = "response"

\* C10: when the planner's completion text is not JSON, generateResponse
\* returns actions = [], requiresConfirmation = true and confidence = 0.1
\* without raising, and the execution gate does not fire.
C10_PlannerFallback ==
  (handler \in {"chat", "clarify"} /\ completion.call = "planner"
     /\ completion.content.kind = "text") =>
    /\ response # None
    /\ response[1].actions = <<>>
    /\ response[1].requiresConfirmation = TRUE
    /\ response[1].confidence = 1000
    /\ caught = None
    /\ ~ executorCalled
    /\ executedActions = <<>>
    /\ StoreWrites = {}
    /\ pc = "done" => (reply.type = "response" /\ reply.executedActions = <<>>)

\* C10 witness: the chat handler replied on a fallback planner result.
C10_Witness ==
  /\ handler = "chat"
  /\ pc = "done"
  /\ completion.call = "planner"
  /\ completion.content.kind = "text"
  /\ reply.type = "response"
  /\ reply.confidence = 1000

C4_ClarifyRequiresClarification ==
  (completion.call = "classifier" /\ classification # None
     /\ classification[1].intent = "CLARIFY") =>
    classification[1].requiresClarification = TRUE

\* The required-field table as the claims state it.
C7_Required(classified) ==
  CASE classified \in {"CREATE_PAYEE", "CREATE_CATEGORY"} -> {"name"}
    [] classified \in {"UPDATE_PAYEE", "DELETE_PAYEE",
                   "UPDATE_CATEGORY", "DELETE_CATEGORY"} -> {"name", "id"}
    [] OTHER -> {}

\* The extractor's fail-soft result for the classified intent.
C7_IsFallback ==
  /\ extraction # None
  /\ caught = None
  /\ extraction[1].entities = <<>>
  /\ extraction[1].confidence = 0
  /\ extraction[1].ambiguousEntities = <<>>
  /\ Range(extraction[1].missingRequiredFields) = C7_Required(classification[1].intent)
  /\ Len(extraction[1].missingRequiredFields) =
       Cardinality(C7_Required(classification[1].intent))

C8_MissingIsRequiredMinusPresent ==
  (/\ completion.call = "extractor"
   /\ completion.content.kind = "json"
   /\ completion.content.entitiesTag # "other") =>
    /\ extraction # None
    /\ extraction[1].entities = completion.content.entities
    /\ Range(extraction[1].missingRequiredFields) =
         C7_Required(classification[1].intent)
           \ {extraction[1].entities[i].type : i \in 1..Len(extraction[1].entities)}
    /\ Len(extraction[1].missingRequiredFields) =
         Cardinality(Range(extraction[1].missingRequiredFields))

\* C8 witness: a name entity with an empty value counted as present although
\* the completion itself reported name as missing.
C8_Witness ==
  /\ completion.call = "extractor"
  /\ completion.content.kind = "json"
  /\ classification[1].intent = "CREATE_PAYEE"
  /\ completion.content.entities = <<[type |-> "name", value |-> ""]>>
  /\ completion.content.missingRequiredFields = Some(<<"name">>)
  /\ extraction # None
  /\ extraction[1].missingRequiredFields = <<>>

\* C6: on the processUserIntent path a failed classification completion is
\* surfaced as a service error, never as a clarification request.
C6_ProcessFailureSurfaced ==
  (/\ handler = "process"
   /\ pc = "done"
   /\ completion.call = "intent"
   /\ completion.content.kind = "fail") =>
    /\ ~ reply.needsClarification
    /\ reply.clarificationContext = None
    /\ reply.error # None

(***************************************************************************)
(* Properties of executeActions.                                           *)
(***************************************************************************)
\* The store requests of executeActions: those after the two lookups.
ExecutorStoreCalls == SubSeq(storeCalls, 3, Len(storeCalls))

\* An action the executor is expected to send to the store: a known type on
\* a known entity that can be built (create, or any action with data).
ExpectedRequest(a) ==
  /\ a.type \in {"create", "read", "update", "delete"}
  /\ a.entity \in {"payee", "category"}
  /\ (a.type = "create" \/ a.hasData)

\* Number of store requests expected for the first k actions.
ExpectedRequests(actions, k) ==
  Cardinality({j \in 1..k : ExpectedRequest(actions[j])})

InExecutor ==
  /\ handler = "chat"
  /\ executorCalled
  /\ response # None
  /\ pc \in {"exec", "done"}

\* C11: a failing action, one that throws while it is dispatched included,
\* does not abort the batch: the loop runs to the last action, every later
\* action that has a request is still sent to the store, the failing
\* result is marked failed with an error message and the results of the
\* other actions follow their own outcome.
C11_ActionIsolation ==
  InExecutor =>
    LET actions == response[1].actions
        n == Len(executedActions)
    IN /\ n <= Len(actions)
       /\ (pc = "done" => n = Len(actions))
       /\ Len(ExecutorStoreCalls) = ExpectedRequests(actions, n)
       /\ \A k \in 1..n :
            LET a == actions[k]
                sent == ExpectedRequest(a)
                outcome == IF sent
                           THEN ExecutorStoreCalls[ExpectedRequests(actions, k)].outcome
                           ELSE "none"
                threw == /\ a.type \in {"read", "update", "delete"}
                         /\ a.entity \in {"payee", "category"}
                         /\ ~ a.hasData
            IN /\ (threw \/ (sent /\ outcome # "ok")) =>
                    /\ ~ executedActions[k].success
                    /\ executedActions[k].error # ""
               /\ (sent /\ outcome = "ok") => executedActions[k].success

\* C12: executeActions returns one result per action, the i-th result
\* carrying the id, type and entity of the i-th action, and the store
\* requests are sent one after the other in list order.
C12_OneToOneInOrder ==
  InExecutor =>
    LET actions == response[1].actions
        n == Len(executedActions)
    IN /\ n <= Len(actions)
       /\ (pc = "done" => /\ n = Len(actions)
                          /\ Len(reply.executedActions) = Len(actions))
       /\ Len(ExecutorStoreCalls) = ExpectedRequests(actions, n)
       /\ \A i \in 1..n :
            /\ executedActions[i].actionId = actions[i].id
            /\ executedActions[i].type = actions[i].type
            /\ executedActions[i].entity = actions[i].entity
            /\ ExpectedRequest(actions[i]) =>
                 LET call == ExecutorStoreCalls[ExpectedRequests(actions, i)]
                 IN /\ call.table = (IF actions[i].entity = "payee"
                                     THEN "payees" ELSE "categories")
                    /\ call.op = (CASE actions[i].type = "create" -> "insert"
                                    [] actions[i].type = "read" -> "select"
                                    [] OTHER -> actions[i].type)

\* C13: every action whose (type, entity) pair is not one of the eight
\* known pairs, the type or the entity being the unknown part, gets a result
\* with success false and error "Unknown action type", and sends no store
\* request.
C13_UnknownPairRejected ==
  InExecutor =>
    /\ Len(ExecutorStoreCalls) =
         ExpectedRequests(response[1].actions, Len(executedActions))
    /\ \A k \in 1..Len(executedActions) :
         LET a == response[1].actions[k] IN
         (a.type \notin {"create", "read", "update", "delete"}
            \/ a.entity \notin {"payee", "category"}) =>
           /\ executedActions[k].defined
           /\ ~ executedActions[k].success
           /\ executedActions[k].error = "Unknown action type"

(***************************************************************************)
(* Properties of the clarification conversation of processUserIntent.      *)
(***************************************************************************)
\* A finished turn of the processUserIntent route that answered a question.
AnsweredTurn ==
  /\ handler = "process"
  /\ pc = "done"
  /\ request # None
  /\ request[1].clarificationContext # None
  /\ ~ InvalidMessage(request[1].message)

AnswerText == request[1].message.text
AnswerContext == request[1].clarificationContext[1]

\* The collected data after the turn: in the context of the reply while
\* the conversation stays open, in the executed intent once it is resolved.
MergedData ==
  IF reply.clarificationContext # None
  THEN reply.clarificationContext[1].collectedData
  ELSE intent[1].data

\* C17: a classification that names the entity kind but lacks the name opens
\* a clarification (step 1); one answer that contains a double-quoted name
\* closes it: the merged name is the quoted string and the second turn
\* returns needsClarification false.
C17_QuotedNameConverges ==
  (/\ AnsweredTurn
   /\ AnswerContext.clarificationStep = 1
   /\ AnswerContext.originalIntent.entity \in {"payee", "category"}
   /\ ~ Truthy(AnswerContext.collectedData.name)
   /\ quotedMatch(Chars(AnswerText)) # None) =>
    /\ ~ reply.needsClarification
    /\ reply.clarificationContext = None
    /\ intent # None
    /\ intent[1].data.name = Some(Text(quotedMatch(Chars(AnswerText))[1]))

C20_EntityAndTypeRecorded ==
  AnsweredTurn =>
    LET lower == toLowerCase(Chars(AnswerText))
        kind == \E w \in {"payee", "vendor", "supplier", "category"} :
                  includes(lower, Chars(w))
    IN \A t \in {"income", "expense"} :
         (kind /\ includes(lower, Chars(t))) =>
           /\ MergedData.entity # None
           /\ MergedData.type = Some(t)

\* C21: in a clarifying answer a word that is an entity-kind keyword (payee,
\* vendor, supplier, category) is never stored as the collected name: for
\* "A payee called ABC Corp" the name is not "payee".
C21_KeywordNotStoredAsName ==
  (/\ AnsweredTurn
   /\ ~ Truthy(AnswerContext.collectedData.name)) =>
    \A w \in {"payee", "vendor", "supplier", "category"} :
      includes(toLowerCase(Chars(AnswerText)), Chars(w)) =>
        MergedData.name # Some(w)

\* C22: the clarification loop is capped: an answer given at the last step
\* that still lacks the required information ends the conversation instead
\* of asking again.
C22_LoopTerminates ==
  (/\ AnsweredTurn
   /\ AnswerContext.clarificationStep >= MaxSteps - 1) =>
    /\ ~ reply.needsClarification
    /\ reply.clarificationContext = None

(***************************************************************************)
(* Properties of processUserIntent without a clarification context.        *)
(***************************************************************************)
\* C19: without a clarification context, a classification with
\* needsClarification true executes nothing and returns needsClarification
\* true with a new context: step 1, the classification as original intent,
\* its data as collected data and its questions as pending questions; the
\* response is the first question or the generic text.
C19_ClarificationOpened ==
  (/\ handler = "process"
   /\ request # None
   /\ request[1].clarificationContext = None
   /\ completion.call = "intent"
   /\ intent # None
   /\ intent[1].needsClarification = Some(TRUE)) =>
    /\ pc = "done"
    /\ storeCalls = <<>>
    /\ reply.needsClarification
    /\ reply.clarificationContext =
         Some([originalIntent |-> intent[1],
               clarificationStep |-> 1,
               collectedData |-> [intent[1].data EXCEPT !.present = TRUE],
               pendingQuestions |->
                 IF intent[1].clarificationQuestions = None
                 THEN <<>> ELSE intent[1].clarificationQuestions[1]])
    /\ reply.message =
         (IF intent[1].clarificationQuestions # None
             /\ Len(intent[1].clarificationQuestions[1]) > 0
          THEN intent[1].clarificationQuestions[1][1]
          ELSE "I need more information to help you.")

\* C19 witness: a classification that asks one question and carries a name.
C19_Witness ==
  /\ handler = "process"
  /\ pc = "done"
  /\ completion.call = "intent"
  /\ completion.content.kind = "json"
  /\ intent # None
  /\ intent[1].needsClarification = Some(TRUE)
  /\ intent[1].data.name = Some("ABC Corp")
  /\ reply.clarificationContext # None
  /\ reply.clarificationContext[1].clarificationStep = 1
  /\ reply.message = "What would you like to add - a payee or a category?"

\* A turn of the processUserIntent route in which the classification call
\* or a store request failed.
C23_SomethingFailed ==
  \/ (completion.call = "intent" /\ completion.content.kind = "fail")
  \/ \E i \in 1..Len(storeCalls) : storeCalls[i].outcome # "ok"

\* C23: processUserIntent never throws: every turn with a valid message ends
\* with a result of processUserIntent, and when the classifier or the store
\* failed the result has success false and needsClarification false.
C23_NeverHardFails ==
  (/\ handler = "process"
   /\ pc = "done"
   /\ request # None
   /\ ~ request[1].malformed
   /\ ~ InvalidMessage(request[1].message)) =>
    /\ reply.status = 200
    /\ reply.type = "result"
    /\ C23_SomethingFailed =>
         /\ ~ reply.success
         /\ ~ reply.needsClarification

\* C24: on the processUserIntent path no create, update or delete reaches
\* the store from a classification whose confidence is not strictly greater
\* than 0.8.
C24_ProcessConfidenceGate ==
  (/\ handler = "process"
   /\ \E i \in 1..Len(storeCalls) :
        storeCalls[i].op \in {"insert", "update", "delete"}) =>
    /\ intent # None
    /\ intent[1].confidence # None
    /\ intent[1].confidence[1] > ConfidenceGate

\* C37: on the processUserIntent path an update or delete reaches the store
\* only with an id that is a valid UUID, a payee insert only with a
\* non-empty name and a category insert only with a non-empty name and a
\* type of income or expense; a create, update or delete that sends nothing
\* to the store ends the turn with success false and needsClarification
\* false.
C37_ValidatedDispatch ==
  (/\ handler = "process"
   /\ pc = "done"
   /\ intent # None
   /\ reply.status = 200
   /\ ~ reply.needsClarification
   /\ intent[1].entity \in {"payee", "category"}
   /\ intent[1].action \in {"create", "update", "delete"}) =>
    /\ \A i \in 1..Len(storeCalls) :
         /\ storeCalls[i].op \in {"update", "delete"} =>
              /\ intent[1].data.id # None
              /\ isValidUUID(intent[1].data.id[1])
         /\ storeCalls[i].op = "insert" =>
              /\ storeCalls[i].name # ""
              /\ storeCalls[i].table = "categories" =>
                   /\ intent[1].data.type # None
                   /\ intent[1].data.type[1] \in {"income", "expense"}
    /\ storeCalls = <<>> => ~ reply.success

(***************************************************************************)
(* Properties of the turns of the chat and clarify handlers.               *)
(***************************************************************************)
\* C31: the clarify handler plans (and then may execute) only when the
\* clarification condition of the chat handler is false: the classification
\* does not require clarification and no required field is missing.
C31_ClarifyResumesChatCondition ==
  (/\ handler = "clarify"
   /\ plannerCalled
   /\ classification # None
   /\ extraction # None) =>
    ~ (\/ classification[1].requiresClarification
       \/ Len(extraction[1].missingRequiredFields) > 0)

\* C39: in the clarification branch of a turn of the chat or clarify
\* handler the turn ends with type "clarification": wording the question
\* never fails the turn.
C39_ClarificationNeverFails ==
  (/\ handler \in {"chat", "clarify"}
   /\ pc = "done"
   /\ classification # None
   /\ extraction # None
   /\ NeedsClarification(handler, classification[1], extraction[1])) =>
    /\ reply.status = 200
    /\ reply.type = "clarification"

\* C36: a turn of the chat handler or of the clarify handler that ends with
\* an error reply (HTTP 400 or 500) has sent no insert, update or delete to
\* the store.
C36_NoWriteBeforeError ==
  (/\ handler \in {"chat", "clarify"}
   /\ pc = "done"
   /\ reply.status \in {400, 500}) =>
    StoreWrites = {}

\* The keys of the collected data of a clarification context.
DataKeys == {"name", "id", "type", "search_term", "entity"}

\* C38 (as stated): the collected data of the context that an answered turn
\* returns keeps every key of the incoming one, keeps the name of the
\* incoming one, and differs from the incoming one in entity and type only
\* as far as the keys of the incoming one go.
C38_OnlyEntityAndTypeOverwritten ==
  (AnsweredTurn /\ reply.clarificationContext # None) =>
    LET incoming == AnswerContext.collectedData
        returned == reply.clarificationContext[1].collectedData
    IN /\ \A k \in DataKeys : incoming[k] # None => returned[k] # None
       /\ incoming.name # None => returned.name = incoming.name
       /\ \A k \in DataKeys \ {"entity", "type"} :
            incoming[k] # None => returned[k] = incoming[k]

\* C38: the collected data of the context that an answered turn returns
\* keeps every key of the incoming one and keeps a non-empty name of the
\* incoming one; id and search_term are as they were; a name that differs
\* from the incoming one replaces an absent or empty name and is not empty.
C38_CollectedDataAccumulates ==
  (AnsweredTurn /\ reply.clarificationContext # None) =>
    LET incoming == AnswerContext.collectedData
        returned == reply.clarificationContext[1].collectedData
    IN /\ \A k \in DataKeys : incoming[k] # None => returned[k] # None
       /\ Truthy(incoming.name) => returned.name = incoming.name
       /\ \A k \in {"id", "search_term"} : returned[k] = incoming[k]
       /\ returned.name # incoming.name =>
            ~ Truthy(incoming.name) /\ Truthy(returned.name)

\* A name was collected, the answer holds a word that the heuristic would
\* take for a name, and the conversation stays open.
C38_Witness ==
  /\ AnsweredTurn
  /\ reply.clarificationContext # None
  /\ Truthy(AnswerContext.collectedData.name)
  /\ AnswerText = "Acme"
  /\ reply.clarificationContext[1].collectedData.name = Some("ABC Corp")

\* C33: the clarify handler accepts the request that confirmAction of the
\* conversation store posts for a suggested action: the turn ends with
\* status 200 and type "confirmation" instead of a rejection of the input.
C33_ConfirmationAccepted ==
  (/\ handler = "clarify"
   /\ pc = "done"
   /\ request = Some(ConfirmActionBody)) =>
    /\ reply.status = 200
    /\ reply.type = "confirmation"

\* The ancestors of the category with this id through at most steps
\* parent_id links.
RECURSIVE Ancestors(_, _, _)
Ancestors(rows, id, steps) ==
  IF steps = 0 \/ rows[id].parent_id = Null
  THEN {}
  ELSE {rows[id].parent_id} \cup Ancestors(rows, rows[id].parent_id, steps - 1)

\* C40: after any sequence of requests to the category POST and PUT routes
\* no category is its own ancestor through parent_id links.
C40_HierarchyAcyclic ==
  \A id \in 1..Len(categoryRows) :
    id \notin Ancestors(categoryRows, id, Len(categoryRows))

(***************************************************************************)
(* Properties of the conversation store.                                   *)
(***************************************************************************)
\* C25: the pending clarification of a conversation is private to it: the
\* reply of a turn of another conversation neither overwrites nor clears
\* the pending clarification that a turn of this conversation produced.
C25_ClarificationPrivate ==
  [][\A i \in 1..Len(fetches) :
       (/\ fetches' = RemoveAt(fetches, i)
        /\ fetches[i].kind \in {"send", "clarify"}
        /\ pendingClarification # None
        /\ clarificationOwner # Some(fetches[i].target)) =>
         /\ pendingClarification' = pendingClarification
         /\ clarificationOwner' = clarificationOwner]_vars

\* C26: no two requests of the same conversation are in flight at once.
C26_OneTurnPerConversation ==
  \A i, j \in 1..Len(fetches) :
    i # j => fetches[i].target # fetches[j].target

\* C27: the message list of a conversation is append-only: whenever a
\* conversation exists before and after a step of the store, its earlier
\* message list is a prefix of the later one.
C27_AppendOnly ==
  [][\A i \in 1..Len(conversations) :
       \A j \in 1..Len(conversations') :
         conversations[i].id = conversations'[j].id =>
           /\ Len(conversations[i].messages) <= Len(conversations'[j].messages)
           /\ conversations[i].messages =
                SubSeq(conversations'[j].messages, 1,
                       Len(conversations[i].messages))]_vars

\* The conversations of list convs other than the one with this id.
C32_Others(convs, id) == SelectSeq(convs, LAMBDA conv : conv.id # id)

\* C34: every message that a sendMessage call produces goes to the target
\* conversation of the call: when the reply of a sendMessage request
\* arrives, the messages of every conversation other than the target of the
\* request stay as they were.
C34_SameTarget ==
  [][\A i \in 1..Len(fetches) :
       (/\ fetches[i].kind = "send"
        /\ fetches' = RemoveAt(fetches, i)
        /\ SendMessageReply) =>
         \A id \in ConversationIds :
           id # fetches[i].target =>
             MessagesOf(conversations', id) = MessagesOf(conversations, id)]_vars

\* C35: isProcessing is true exactly while a sendMessage, handleClarification
\* or confirmAction request is in flight.
C35_ProcessingWhileInFlight == isProcessing <=> fetches # <<>>

\* C32: createConversation adds one conversation with a fresh id and no
\* messages and makes it current, leaving the others as they are;
\* deleteConversation(id) removes that conversation only, clears
\* currentConversationId iff it was the current one and leaves the others
\* as they are; a step that adds a message (a send or the reply of a
\* request) appends one message to at most one of the conversations and
\* leaves the others as they are.
C32_Lifecycle ==
  [][
      /\ NewConversation =>
          /\ Len(conversations') = Len(conversations) + 1
          /\ conversations'[1].id \notin ConversationIds
          /\ conversations'[1].messages = <<>>
          /\ currentConversationId' = Some(conversations'[1].id)
          /\ Tail(conversations') = conversations
      /\ DeleteConversation =>
          \E id \in ConversationIds :
            /\ Len(conversations') = Len(conversations) - 1
            /\ conversations' = C32_Others(conversations, id)
            /\ (currentConversationId' = None) <=>
                 (currentConversationId \in {None, Some(id)})
            /\ currentConversationId # Some(id) =>
                 currentConversationId' = currentConversationId
      /\ fetches' # fetches =>
          \/ \A i \in 1..Len(conversations) :
                \E j \in 1..Len(conversations') :
                  conversations'[j] = conversations[i]
          \/ \E id \in ConversationIds :
                /\ Len(conversations') = Len(conversations)
                /\ C32_Others(conversations', id) = C32_Others(conversations, id)
                /\ Len(MessagesOf(conversations', id)) =
                     Len(MessagesOf(conversations, id)) + 1
                /\ SubSeq(MessagesOf(conversations', id), 1,
                          Len(MessagesOf(conversations, id))) =
                     MessagesOf(conversations, id)]_vars

\* C32 witness: of two conversations the current one was deleted; the other
\* one still holds its messages and no conversation is current.
C32_Witness ==
  /\ nextId = 3
  /\ Len(conversations) = 1
  /\ currentConversationId = None
  /\ Len(conversations[1].messages) = 2

IsPrefix(s, t) == Len(s) <= Len(t) /\ s = SubSeq(t, 1, Len(s))

\* C29: a chat turn is one sequential chain: the classifier once, then the
\* extractor once with the intent the classifier returned, then either the
\* clarification reply ends the turn or the planner is called once and,
\* after it returned, the executor; the only store requests before the
\* planner has returned are the two context lookups.
C29_SequentialChain ==
  handler = "chat" =>
    /\ \/ IsPrefix(aiCalls, <<"classifier", "extractor", "clarifier">>)
       \/ IsPrefix(aiCalls, <<"classifier", "extractor", "planner", "executor">>)
    /\ (completion.call = "extractor" /\ extraction # None) =>
         /\ classification # None
         /\ extraction[1] =
              extractEntities(completion.content, classification[1].intent).value
    /\ (Len(aiCalls) >= 3 /\ aiCalls[3] = "clarifier") =>
         /\ pc = "done"
         /\ ~ plannerCalled
         /\ ~ executorCalled
    /\ executorCalled <=> (Len(aiCalls) = 4)
    /\ executorCalled => (plannerCalled /\ response # None)
    /\ Len(storeCalls) > 2 => (executorCalled /\ response # None)
    /\ \A i \in 1..Len(storeCalls) :
         i <= 2 => storeCalls[i].op = "select"

\* C29 witness: a finished chat turn that ran the whole chain and wrote to
\* the store.
C29_Witness ==
  /\ handler = "chat"
  /\ pc = "done"
  /\ aiCalls = <<"classifier", "extractor", "planner", "executor">>
  /\ Len(storeCalls) = 3
  /\ storeCalls[3].op = "insert"
  /\ reply.type = "response"

\* C30: in the chat endpoint the classification prompt contains the payee
\* names and the category names the lookups returned whenever they returned
\* at least one.
C30_NamesInClassifierPrompt ==
  (/\ handler = "chat"
   /\ prompt # None
   /\ contextData # None) =>
    /\ prompt[1].recentPayees = contextData[1].existingPayees[1]
    /\ prompt[1].categories = contextData[1].existingCategories[1]

(***************************************************************************)
(* Properties of the routes: validation and error replies.                 *)
(***************************************************************************)
\* C14: a request whose message is missing, empty or not a string is
\* answered with HTTP 400 by the chat, intent and processUserIntent
\* handlers before anything else happens: no store lookup, no classifier,
\* extractor or planner call and no execution.
C14_InvalidMessageRejected ==
  (/\ handler \in {"chat", "intent", "process"}
   /\ request # None
   /\ ~ request[1].malformed
   /\ (request[1].message.jstype # "string" \/ request[1].message.text = "")) =>
    /\ pc = "done"
    /\ reply.status = 400
    /\ storeCalls = <<>>
    /\ completion = NoCompletion
    /\ classification = None
    /\ extraction = None
    /\ response = None
    /\ intent = None
    /\ ~ plannerCalled
    /\ ~ executorCalled
    /\ executedActions = <<>>

\* C14 witness: the processUserIntent route rejects a number sent with a
\* clarification context.
C14_Witness ==
  /\ handler = "process"
  /\ pc = "done"
  /\ request # None
  /\ request[1].message.jstype = "number"
  /\ request[1].clarificationContext # None
  /\ reply.status = 400

\* A finished chat or clarify turn whose last completion call returned.
C15_CallsReturned ==
  /\ handler \in {"chat", "clarify"}
  /\ pc = "done"
  /\ completion.call # "none"
  /\ completion.content.kind # "fail"

\* C15: when every completion call of a turn returns, content that is empty
\* or does not parse is recovered by the fail-soft defaults and the turn
\* never ends with an error reply.
C15_MalformedNeverError ==
  C15_CallsReturned =>
    /\ reply.status = 200
    /\ reply.error = None

\* The error texts the handlers and the services word themselves.
C16_FixedMessages ==
  {"Message is required and must be a string",
   "Original message is required",
   "Message parameter is required",
   "Internal server error processing AI request",
   "Internal server error processing clarification",
   "Internal server error during intent classification",
   "Internal server error",
   "Failed to classify intent",
   "Failed to extract entities",
   "Failed to generate response",
   "Empty response from AI",
   "Payee name is required for creation",
   "Valid payee ID is required for updates",
   "Valid payee ID is required for deletion",
   "Unsupported payee action",
   "Category name is required for creation",
   "Category type must be either \"income\" or \"expense\"",
   "Valid category ID is required for updates",
   "Valid category ID is required for deletion",
   "Unsupported category action",
   "Failed to create payee.",
   "Failed to update payee.",
   "Failed to create category.",
   "Failed to update category."}

\* C16: no reply of the AI endpoints carries the text of an exception the
\* code did not word itself or the underlying error object: an error reply
\* has a fixed message and, for an AI service failure only, a code.
C16_NoRawErrorInReply ==
  /\ reply.details = None
  /\ reply.error # None => reply.error[1] \in C16_FixedMessages
  /\ reply.code # None => (caught # None /\ caught[1].aiError)

====
